---- MODULE Spec2Model ----
(***************************************************************************)
(* Model of upkeep's kernel upgrade orchestrator                           *)
(* (upkeep/utils/kernel.py: upgrade_kernel, rebuild_kernel and the         *)
(* bootloader helpers).  One run of upgrade_kernel(fatal=...) is modelled: *)
(* every action is one blocking external command (or file probe) of the    *)
(* code together with the pure code that follows it up to the next         *)
(* external command.  The outputs and exit codes of the external commands  *)
(* are the inputs of the run and are chosen by \E in the action that runs  *)
(* the command.                                                            *)
(*                                                                         *)
(* Text is modelled as sequences of one-character strings, a command       *)
(* output as the sequence of its lines (the result of str.splitlines()).   *)
(***************************************************************************)
EXTENDS Integers, Sequences, FiniteSets, TLC

(***************************************************************************)
(* Bounds of the model.                                                    *)
(***************************************************************************)
\* largest number of lines in the output of `eselect kernel list`
MaxLines == 3
\* largest number of lines in the output of `eselect --brief kernel list`
MaxBrief == 3
\* largest number of lines in the output of the second `eselect kernel list`
MaxLines2 == 2
\* largest number of lines `bootctl update` writes to stderr
MaxStderr == 1

(***************************************************************************)
(* Values.                                                                 *)
(***************************************************************************)
None == "None"
\* None where the code holds an int (unselected) or a text (old_kernel)
NoIndex == 0 - 1
NoText == <<None>>
NoErr == [type |-> "none", cmd |-> "", rc |-> 0]
\* exit codes a failing command may have
RCs == {1, 2}
CalledProcessError(cmd, rc) == [type |-> "CalledProcessError", cmd |-> cmd, rc |-> rc]
FileNotFoundError(cmd) == [type |-> "FileNotFoundError", cmd |-> cmd, rc |-> 0]
KernelConfigError(msg) == [type |-> "KernelConfigError", cmd |-> msg, rc |-> 0]
RuntimeError(msg) == [type |-> "RuntimeError", cmd |-> msg, rc |-> 0]
IndexError == [type |-> "IndexError", cmd |-> "", rc |-> 0]
Abort == [type |-> "Abort", cmd |-> "", rc |-> 0]

(***************************************************************************)
(* Text helpers: str.strip(), str.endswith('*') / re.search(r'\*$'),       *)
(* re.search(r'^\[([0-9]+)\]') and int().                                  *)
(***************************************************************************)
Digits == {"0", "1", "2", "3", "4", "5", "6", "7", "8", "9"}

DigitVal(c) ==
    CASE c = "0" -> 0 [] c = "1" -> 1 [] c = "2" -> 2 [] c = "3" -> 3
      [] c = "4" -> 4 [] c = "5" -> 5 [] c = "6" -> 6 [] c = "7" -> 7
      [] c = "8" -> 8 [] c = "9" -> 9

\* s.strip(): the text without its leading and trailing blanks
Strip(s) ==
    LET nb == {i \in 1..Len(s) : s[i] # " "}
    IN  IF nb = {} THEN <<>>
        ELSE LET lo == CHOOSE i \in nb : \A j \in nb : i <= j
                 hi == CHOOSE i \in nb : \A j \in nb : j <= i
             IN  SubSeq(s, lo, hi)

\* x.endswith('*'), and re.search(r'\*$', x) on a line without line break
EndsWithStar(s) == Len(s) > 0 /\ s[Len(s)] = "*"

\* number of digits of s from position i on
RECURSIVE DigitRun(_, _)
DigitRun(s, i) ==
    IF i <= Len(s) /\ s[i] \in Digits THEN 1 + DigitRun(s, i + 1) ELSE 0

\* int() of the digits s[i..j]
RECURSIVE ToInt(_, _, _)
ToInt(s, i, j) ==
    IF j < i THEN 0 ELSE 10 * ToInt(s, i, j - 1) + DigitVal(s[j])

\* re.search(r'^\[([0-9]+)\]', s): TRUE when the line starts with a
\* bracketed number
HasBracketIndex(s) ==
    /\ Len(s) >= 3
    /\ s[1] = "["
    /\ DigitRun(s, 2) >= 1
    /\ 2 + DigitRun(s, 2) <= Len(s)
    /\ s[2 + DigitRun(s, 2)] = "]"

\* int(m.group(1))
BracketIndex(s) == ToInt(s, 2, 1 + DigitRun(s, 2))

\* the lines the code iterates: (s.strip() for s in stdout.splitlines() if s)
RECURSIVE StrippedLines(_)
StrippedLines(out) ==
    IF out = <<>> THEN <<>>
    ELSE IF Head(out) = <<>> THEN StrippedLines(Tail(out))
         ELSE <<Strip(Head(out))>> \o StrippedLines(Tail(out))

\* what is left of the generator `lines` after
\* any(re.search(r'\*$', line) for line in lines): any() stops at the first
\* line that matches and has consumed it; without a match it consumes all
RECURSIVE AfterAny(_)
AfterAny(ls) ==
    IF ls = <<>> THEN <<>>
    ELSE IF EndsWithStar(Head(ls)) THEN Tail(ls) ELSE AfterAny(Tail(ls))

AnySelected(ls) == \E i \in 1..Len(ls) : EndsWithStar(ls[i])

\* the loop of upgrade_kernel over (x for x in lines if not x.endswith('*')):
\* the index of the first such line that starts with a bracketed number
RECURSIVE FirstUnselected(_)
FirstUnselected(ls) ==
    IF ls = <<>> THEN NoIndex
    ELSE IF ~EndsWithStar(Head(ls)) /\ HasBracketIndex(Head(ls))
         THEN BracketIndex(Head(ls))
         ELSE FirstUnselected(Tail(ls))

\* number of blanks of s from position i on
RECURSIVE BlankRun(_, _)
BlankRun(s, i) ==
    IF i <= Len(s) /\ s[i] = " " THEN 1 + BlankRun(s, i + 1) ELSE 0

\* re.split(r'^\[[0-9]+\]\s+', line) has a second element only when the
\* bracketed number is followed by a blank; line[1] raises IndexError otherwise
SplitHasLabel(s) ==
    HasBracketIndex(s) /\ BlankRun(s, 3 + DigitRun(s, 2)) >= 1

\* re.split(r'^\[[0-9]+\]\s+', line)[1][6:]
LabelTail(s) ==
    LET close == 2 + DigitRun(s, 2)
        from  == close + 1 + BlankRun(s, close + 1)
    IN  SubSeq(s, from + 6, Len(s))

\* the second loop of upgrade_kernel (lines 319-324): "none" when no
\* unselected line starts with a bracketed number, "error" when the first
\* such line makes re.split(...)[1] raise, else the text of old_kernel
RECURSIVE OldKernel(_)
OldKernel(ls) ==
    IF ls = <<>> THEN [kind |-> "none", text |-> NoText]
    ELSE IF ~EndsWithStar(Head(ls)) /\ HasBracketIndex(Head(ls))
         THEN IF SplitHasLabel(Head(ls))
              THEN [kind |-> "text", text |-> LabelTail(Head(ls))]
              ELSE [kind |-> "error", text |-> NoText]
         ELSE OldKernel(Tail(ls))

(***************************************************************************)
(* The inputs: what the external commands may print.                       *)
(***************************************************************************)
\* lines of `eselect --colour=no kernel list`
LineSel1 == <<" ", "[", "1", "]", " ", "*">>
LineSel2 == <<" ", "[", "2", "]", " ", "b", " ", "*">>
LineSelNoIndex == <<" ", "*">>
LineUnsel1 == <<" ", "[", "1", "]", " ", "a">>
LineUnsel2 == <<" ", "[", "2", "]", " ">>
LineUnsel4 == <<" ", "[", "4", "]", " ">>
LineUnsel12 == <<" ", "[", "1", "2", "]", " ", "c">>
LineHeader == <<"A", ":">>
FullLineSet ==
    {LineSel1, LineSel2, LineSelNoIndex, LineUnsel1, LineUnsel2, LineUnsel4,
     LineUnsel12, LineHeader}

\* lines of `eselect --colour=no --brief kernel list`
BriefLineSet == {<<>>, <<" ">>}

\* lines of the listing printed after the rebuild
LineOldA == <<" ", "[", "1", "]", " ", " ", "l", "i", "n", "u", "x", "-", "a">>
LineNewB == <<" ", "[", "2", "]", " ", " ", "l", "i", "n", "u", "x", "-", "b", " ", "*">>
LineShort == <<" ", "[", "1", "]", " ", "l", "i", "n", "u", "x">>
LineBare == <<" ", "[", "2", "]", " ">>
LineNewA == <<" ", "[", "1", "]", " ", " ", "l", "i", "n", "u", "x", "-", "a", " ", "*">>
LineOldB == <<" ", "[", "2", "]", " ", " ", "l", "i", "n", "u", "x", "-", "b">>
Line2Set == {LineOldA, LineNewB, LineNewA, LineOldB, LineShort, LineBare}

SeqsUpTo(S, n) == UNION {[1..k -> S] : k \in 0..n}

\* kinds of stderr lines of a failed `bootctl update`
StderrKinds == {"token", "skipping", "other"}

(***************************************************************************)
(* State.                                                                  *)
(***************************************************************************)
VARIABLES
    pc,            \* the next external command of the run
    fatal,         \* the parameter fatal of upgrade_kernel
    kernel_list,   \* stdout of the first full listing (as lines)
    lines,         \* what is left of the generator `lines`
    brief_lines,   \* the non-empty lines of the brief listing
    unselected,    \* the local unselected of upgrade_kernel
    kernel_list2,  \* stdout of the full listing made after the rebuild
    old_kernel,    \* the local old_kernel of upgrade_kernel
    dot_config,    \* isfile('.config') in the kernel source tree
    cache,         \* the lru_cache of the five memoized probes
    update_stderr, \* e.stderr of a failed `bootctl update`
    sign,          \* db_key, db_crt, the loop index of _maybe_sign_exes and what
                   \* `bootctl status` said about Secure Boot (Unset: not asked)
    hist,          \* external commands and file operations done, in order
    failed,        \* commands that exited non-zero or could not be started
    enoent,        \* commands that could not be started (FileNotFoundError)
    last_rc,       \* exit code of the last command run
    rebuild_called,\* upgrade_kernel has called rebuild_kernel (line 310)
    rebuild_err,   \* the exception that left rebuild_kernel, if any
    outcome,       \* "running", "returned" or "raised"
    err,           \* the exception upgrade_kernel raised
    environ,       \* os.environ of each of two processes
    minenv_cache,  \* the lru_cache of minenv() in each process
    child_env,     \* the env of the last subprocess of each process
    opts,          \* the flags given on the command line of a CLI command
    process_umask, \* the file mode creation mask of the process
    new_umask,     \* the parameter new_umask of the decorator umask
    restore,       \* the parameter restore of the decorator umask
    old_umask,     \* the local old_umask of the decorator's inner
    config_text,   \* the lines of .config as f.readlines() gives them
    probe_ret,     \* what _get_kernel_version_suffix() returned
    suffix         \* the local suffix of rebuild_kernel (line 210)

vars == <<pc, fatal, kernel_list, lines, brief_lines, unselected, kernel_list2,
          old_kernel, dot_config, cache, update_stderr, sign, hist, failed,
          enoent, last_rc, rebuild_called, rebuild_err, outcome, err,
          environ, minenv_cache, child_env, opts,
          process_umask, new_umask, restore, old_umask,
          config_text, probe_ret, suffix>>

\* the state of upgrade_kernel and rebuild_kernel, and the record of a run
kernelVars ==
    <<pc, fatal, kernel_list, lines, brief_lines, unselected, kernel_list2,
      old_kernel, dot_config, cache, update_stderr, sign, hist, failed,
      enoent, last_rc, rebuild_called, rebuild_err, outcome, err>>

\* the state outside of upgrade_kernel and rebuild_kernel
envVars == <<environ, minenv_cache, child_env>>
umaskVars == <<process_umask, new_umask, restore, old_umask>>
suffixVars == <<config_text, probe_ret, suffix>>
auxVars == <<envVars, opts, umaskVars, suffixVars>>

selVars == <<kernel_list, lines, brief_lines, unselected>>
endVars == <<kernel_list2, old_kernel>>
sbVars == <<update_stderr, sign>>

Probes == {"has_grub", "uefi_unified", "esp_path", "kernel_version",
           "kernel_version_suffix"}
Unset == "unset"

\* the locals of upgrade_kernel and rebuild_kernel before the first
\* statement, and an empty record of the run
KernelIdle ==
    /\ kernel_list = <<>>
    /\ lines = <<>>
    /\ brief_lines = <<>>
    /\ unselected = NoIndex
    /\ kernel_list2 = <<>>
    /\ old_kernel = NoText
    /\ cache = [p \in Probes |-> Unset]
    /\ update_stderr = <<>>
    /\ sign = [db_key |-> FALSE, db_crt |-> FALSE, i |-> 0, secure_boot |-> Unset]
    /\ hist = <<>>
    /\ failed = {}
    /\ enoent = {}
    /\ last_rc = 0
    /\ rebuild_called = FALSE
    /\ rebuild_err = NoErr
    /\ outcome = "running"
    /\ err = NoErr

(***************************************************************************)
(* CommandRunner.run and how a run of upgrade_kernel ends.                 *)
(***************************************************************************)
\* sp.run(args, check=True, ...): the command is run and exits with rc;
\* fileops are the file operations the code does before the next command
ExecF(op, rc, fileops) ==
    /\ hist' = Append(hist, op) \o fileops
    /\ last_rc' = rc
    /\ failed' = IF rc = 0 THEN failed ELSE failed \cup {op}
    /\ UNCHANGED enoent

Exec(op, rc) == ExecF(op, rc, <<>>)

\* sp.run raises FileNotFoundError: the binary does not exist
ExecNotFound(op) ==
    /\ hist' = Append(hist, op)
    /\ failed' = failed \cup {op}
    /\ enoent' = enoent \cup {op}
    /\ UNCHANGED last_rc

\* file operations of the code without any command
FileOps(ops) ==
    /\ hist' = hist \o ops
    /\ UNCHANGED <<last_rc, failed, enoent>>

Return ==
    /\ pc' = "done"
    /\ outcome' = "returned"
    /\ err' = NoErr

Raise(e) ==
    /\ pc' = "done"
    /\ outcome' = "raised"
    /\ err' = e

Goto(l) ==
    /\ pc' = l
    /\ UNCHANGED <<outcome, err>>

\* `if fatal: raise click.Abort()` / `return None`
AbortOrReturn == IF fatal THEN Raise(Abort) ELSE Return

\* an exception e leaves rebuild_kernel: upgrade_kernel catches
\* KernelConfigError (lines 309-315) and lets everything else through
RebuildRaises(e) ==
    /\ rebuild_err' = e
    /\ IF e.type = "KernelConfigError" THEN AbortOrReturn ELSE Raise(e)

\* rebuild_kernel returns: upgrade_kernel goes on with the second listing
RebuildReturns == Goto("list2")

\* the exit status of the emerges command, whose last statement is the
\* call of upgrade_kernel: zero when it returns, non-zero when it raises
CliExit == IF outcome = "returned" THEN "zero" ELSE "nonzero"

(***************************************************************************)
(* upgrade_kernel, up to the call of rebuild_kernel.                       *)
(***************************************************************************)
\* mutant: any parsed index is accepted (`if not unselected`)
UnusableIndex_Truthy(u) == u = NoIndex \/ u = 0

\* `unselected not in (1, 2)` (line 301)
UnusableIndex(u) == u \notin {1, 2}

\* mutant: the limit on the brief listing is off by one
TooManyBriefLines_OffByOne(b) == Len(b) > 3

\* `len([...]) > 2` (lines 284-288)
TooManyBriefLines(b) == Len(b) > 2

\* the list comprehension of lines 284-288
NonEmptyLines(out) == SelectSeq(out, LAMBDA l : l # <<>>)

\* mutant: a failing listing is run again until it succeeds
UK_List_Retries ==
    /\ pc = "list"
    /\ UNCHANGED <<auxVars, fatal, brief_lines, unselected, endVars, dot_config, cache,
                   sbVars, rebuild_called, rebuild_err>>
    /\ \/ \E rc \in RCs :
            /\ Exec("eselect list", rc)
            /\ Goto("list")
            /\ UNCHANGED <<kernel_list, lines>>
       \/ \E out \in SeqsUpTo(FullLineSet, MaxLines) :
            /\ Exec("eselect list", 0)
            /\ kernel_list' = out
            /\ lines' = AfterAny(StrippedLines(out))
            /\ IF ~AnySelected(StrippedLines(out))
               THEN AbortOrReturn
               ELSE Goto("brief")

\* lines 276-283: the full listing, and any() over the generator
UK_List ==
    /\ pc = "list"
    /\ UNCHANGED <<auxVars, fatal, brief_lines, unselected, endVars, dot_config, cache,
                   sbVars, rebuild_called, rebuild_err>>
    /\ \/ \E rc \in RCs :
            /\ Exec("eselect list", rc)
            /\ Raise(CalledProcessError("eselect list", rc))
            /\ UNCHANGED <<kernel_list, lines>>
       \/ \E out \in SeqsUpTo(FullLineSet, MaxLines) :
            /\ Exec("eselect list", 0)
            /\ kernel_list' = out
            /\ lines' = AfterAny(StrippedLines(out))
            /\ IF ~AnySelected(StrippedLines(out))
               THEN AbortOrReturn
               ELSE Goto("brief")

\* lines 284-305: the brief listing, then the scan for the unselected index
UK_Brief ==
    /\ pc = "brief"
    /\ UNCHANGED <<auxVars, fatal, kernel_list, lines, endVars, dot_config, cache,
                   sbVars, rebuild_called, rebuild_err>>
    /\ \/ \E rc \in RCs :
            /\ Exec("eselect brief list", rc)
            /\ Raise(CalledProcessError("eselect brief list", rc))
            /\ UNCHANGED <<brief_lines, unselected>>
       \/ \E out \in SeqsUpTo(BriefLineSet, MaxBrief) :
            /\ Exec("eselect brief list", 0)
            /\ brief_lines' = NonEmptyLines(out)
            /\ IF TooManyBriefLines(NonEmptyLines(out))
               THEN /\ AbortOrReturn
                    /\ UNCHANGED unselected
               ELSE /\ unselected' = FirstUnselected(lines)
                    /\ IF UnusableIndex(FirstUnselected(lines))
                       THEN AbortOrReturn
                       ELSE Goto("set")

\* ('eselect', 'kernel', 'set', str(unselected)) (line 306)
SetCmd(u) ==
    CASE u = 1 -> "eselect set 1"
      [] u = 2 -> "eselect set 2"
      [] OTHER -> "eselect set other"

\* lines 306-308: eselect kernel set <unselected>
UK_Set ==
    /\ pc = "set"
    /\ UNCHANGED <<auxVars, fatal, selVars, endVars, dot_config, cache, sbVars,
                   rebuild_called, rebuild_err>>
    /\ \E rc \in {0} \cup RCs :
         /\ Exec(SetCmd(unselected), rc)
         /\ IF rc # 0
            THEN Raise(CalledProcessError(SetCmd(unselected), rc))
            ELSE Goto("config")

(***************************************************************************)
(* rebuild_kernel.                                                         *)
(***************************************************************************)
\* results of _get_kernel_version_suffix(): None or the suffix
Suffixes == {None, "-custom"}

\* mutant: the check for a missing .config is lost
ConfigMissing_Never(present) == FALSE

\* `if not isfile('.config')` (line 206)
ConfigMissing(present) == ~present

\* mutant: config.gz is decompressed whenever it is there, over an existing
\* .config as well (`if isfile(CONFIG_GZ)`)
RK_ConfigCheck_AlwaysDecompresses ==
    /\ pc = "config"
    /\ UNCHANGED <<auxVars, fatal, unselected, endVars, sbVars, last_rc, failed, enoent>>
    /\ rebuild_called' = TRUE
    /\ kernel_list' = <<>>
    /\ lines' = <<>>
    /\ brief_lines' = <<>>
    /\ \E gz \in BOOLEAN :
         LET decompress == gz
             present == dot_config \/ decompress
         IN  /\ dot_config' = present
             /\ IF ~present
                THEN /\ UNCHANGED hist
                     /\ RebuildRaises(KernelConfigError("no .config"))
                     /\ UNCHANGED cache
                ELSE /\ \E sfx \in {None, "-custom"} :
                          cache' = [cache EXCEPT !["kernel_version_suffix"] = sfx]
                     /\ hist' = IF decompress
                                THEN hist \o <<"gunzip config.gz", "read .config">>
                                ELSE Append(hist, "read .config")
                     /\ Goto("oldconfig")
                     /\ UNCHANGED rebuild_err

\* lines 199-210: the configuration check and the first read of the
\* local-version suffix.  gz is isfile(CONFIG_GZ); open('.config', 'wb+')
\* creates the file, so .config is present after a decompression.  kernel_list, lines and brief_lines are not read
\* again before they are reassigned (line 316): the model drops them here.
RK_ConfigCheck ==
    /\ pc = "config"
    /\ UNCHANGED <<auxVars, fatal, unselected, endVars, sbVars, last_rc, failed, enoent>>
    /\ rebuild_called' = TRUE
    /\ kernel_list' = <<>>
    /\ lines' = <<>>
    /\ brief_lines' = <<>>
    /\ \E gz \in BOOLEAN :
         LET decompress == ~dot_config /\ gz
             present == dot_config \/ decompress
         IN  /\ dot_config' = present
             /\ IF ConfigMissing(present)
                THEN /\ UNCHANGED hist
                     /\ RebuildRaises(KernelConfigError("no .config"))
                     /\ UNCHANGED cache
                ELSE /\ \E sfx \in Suffixes :
                          cache' = [cache EXCEPT !["kernel_version_suffix"] = sfx]
                     /\ hist' = IF decompress
                                THEN hist \o <<"gunzip config.gz", "read .config">>
                                ELSE Append(hist, "read .config")
                     /\ Goto("oldconfig")
                     /\ UNCHANGED rebuild_err

\* mutant: a failing command is logged and rebuild_kernel goes on
RK_Checked_KeepsGoing(at, op, next) ==
    /\ pc = at
    /\ UNCHANGED <<auxVars, fatal, selVars, endVars, dot_config, cache, sbVars,
                   rebuild_called, rebuild_err>>
    /\ \E rc \in {0} \cup RCs :
         /\ Exec(op, rc)
         /\ Goto(next)

\* a checked command of rebuild_kernel: a non-zero exit leaves
\* rebuild_kernel as CalledProcessError
RK_Checked(at, op, next) ==
    /\ pc = at
    /\ UNCHANGED <<auxVars, fatal, selVars, endVars, dot_config, cache, sbVars,
                   rebuild_called>>
    /\ \E rc \in {0} \cup RCs :
         /\ Exec(op, rc)
         /\ IF rc # 0
            THEN RebuildRaises(CalledProcessError(op, rc))
            ELSE Goto(next) /\ UNCHANGED rebuild_err

\* lines 211-212
RK_Oldconfig == RK_Checked("oldconfig", "make oldconfig", "make")
\* lines 213-221, the three commands of the first loop
RK_Make == RK_Checked("make", "make -j", "modules_install")
RK_ModulesInstall ==
    RK_Checked("modules_install", "make modules_install", "module_rebuild")
RK_ModuleRebuild ==
    RK_Checked("module_rebuild", "emerge @module-rebuild", "archive")

\* mutant: the rollback is in a finally clause and follows success too
RK_Guarded_RollsBackAlways(at, op, next, rollback) ==
    /\ pc = at
    /\ UNCHANGED <<auxVars, fatal, selVars, endVars, dot_config, cache, sbVars,
                   rebuild_called, rebuild_err>>
    /\ \E rc \in {0} \cup RCs :
         /\ Exec(op, rc)
         /\ Goto(rollback)

\* lines 230-235, one command of the second loop: a non-zero exit is caught
\* and answered with `eselect kernel set 1`; the loop then goes on
RK_Guarded(at, op, next, rollback) ==
    /\ pc = at
    /\ UNCHANGED <<auxVars, fatal, selVars, endVars, dot_config, cache, sbVars,
                   rebuild_called, rebuild_err>>
    /\ \E rc \in {0} \cup RCs :
         /\ Exec(op, rc)
         /\ IF rc # 0 THEN Goto(rollback) ELSE Goto(next)

\* lines 222-235: find /boot ... -exec mv {} OLD_KERNELS_DIR
RK_Archive == RK_Guarded("archive", "find mv", "install", "rollback_archive")
\* lines 227-235: make install
RK_Install == RK_Guarded("install", "make install", "has_grub", "rollback_install")

\* line 235: runner.suppress_output(('eselect', 'kernel', 'set', '1')) in the
\* except clause; its own failure is not caught
RK_Rollback ==
    /\ pc \in {"rollback_archive", "rollback_install"}
    /\ UNCHANGED <<auxVars, fatal, selVars, endVars, dot_config, cache, sbVars,
                   rebuild_called>>
    /\ \E rc \in {0} \cup RCs :
         /\ Exec("eselect set 1", rc)
         /\ IF rc # 0
            THEN RebuildRaises(CalledProcessError("eselect set 1", rc))
            ELSE /\ Goto(IF pc = "rollback_archive" THEN "install" ELSE "has_grub")
                 /\ UNCHANGED rebuild_err

(***************************************************************************)
(* The memoized probes and the bootloader update of rebuild_kernel.        *)
(***************************************************************************)
Yes == "yes"
No == "no"

\* _has_grub() (lines 122-128), first call at line 236: `eix --installed
\* --exact grub`; CalledProcessError gives False, FileNotFoundError is not
\* caught.  With GRUB the next command is dracut, else _uefi_unified() is
\* asked (the `or` of line 236).
RK_HasGrub ==
    /\ pc = "has_grub"
    /\ UNCHANGED <<auxVars, fatal, selVars, endVars, dot_config, sbVars, rebuild_called>>
    /\ \/ /\ Exec("eix grub", 0)
          /\ cache' = [cache EXCEPT !["has_grub"] = Yes]
          /\ Goto("dracut")
          /\ UNCHANGED rebuild_err
       \/ \E rc \in RCs :
            /\ Exec("eix grub", rc)
            /\ cache' = [cache EXCEPT !["has_grub"] = No]
            /\ Goto("uefi")
            /\ UNCHANGED rebuild_err
       \/ /\ ExecNotFound("eix grub")
          /\ RebuildRaises(FileNotFoundError("eix grub"))
          /\ UNCHANGED cache

\* mutant: dracut is run for GRUB only, as the docstring has it
RK_UefiUnified_DracutForGrubOnly ==
    /\ pc = "uefi"
    /\ UNCHANGED <<auxVars, fatal, selVars, endVars, dot_config, sbVars, rebuild_called>>
    /\ \/ /\ Exec("grep uefi", 0)
          /\ cache' = [cache EXCEPT !["uefi_unified"] = Yes]
          /\ Goto("esp")
          /\ UNCHANGED rebuild_err
       \/ \E rc \in RCs :
            /\ Exec("grep uefi", rc)
            /\ cache' = [cache EXCEPT !["uefi_unified"] = No]
            /\ Goto("esp")
            /\ UNCHANGED rebuild_err
       \/ /\ ExecNotFound("grep uefi")
          /\ RebuildRaises(FileNotFoundError("grep uefi"))
          /\ UNCHANGED cache

\* _uefi_unified() (lines 112-119), first call at line 236: grep over
\* /etc/dracut.conf.d/*.conf.  Without GRUB and without unified image dracut
\* is skipped and line 241 (_has_grub() from the cache) leads to
\* _update_systemd_boot.
RK_UefiUnified ==
    /\ pc = "uefi"
    /\ UNCHANGED <<auxVars, fatal, selVars, endVars, dot_config, sbVars, rebuild_called>>
    /\ \/ /\ Exec("grep uefi", 0)
          /\ cache' = [cache EXCEPT !["uefi_unified"] = Yes]
          /\ Goto("dracut")
          /\ UNCHANGED rebuild_err
       \/ \E rc \in RCs :
            /\ Exec("grep uefi", rc)
            /\ cache' = [cache EXCEPT !["uefi_unified"] = No]
            /\ Goto("esp")
            /\ UNCHANGED rebuild_err
       \/ /\ ExecNotFound("grep uefi")
          /\ RebuildRaises(FileNotFoundError("grep uefi"))
          /\ UNCHANGED cache

\* mutant: the branch on _has_grub() is lost
AfterDracut_AlwaysInstaller == "esp"

\* lines 241-244: `if _has_grub(): _update_grub(); return`, else
\* _update_systemd_boot(config_path); _has_grub() answers from its cache
AfterDracut == IF cache["has_grub"] = Yes THEN "grub2" ELSE "esp"

\* mutant: a failing dracut is logged and rebuild_kernel returns its exit
\* code instead of raising
RK_Dracut_ReturnsCode ==
    /\ pc = "dracut"
    /\ UNCHANGED <<auxVars, fatal, selVars, endVars, dot_config, cache, sbVars,
                   rebuild_called, rebuild_err>>
    /\ \E rc \in {0} \cup RCs :
         /\ Exec("dracut", rc)
         /\ IF rc # 0
            THEN RebuildReturns
            ELSE Goto(AfterDracut)

\* lines 237-244: dracut --force --kver ..., then the branch on _has_grub()
RK_Dracut == RK_Checked("dracut", "dracut", AfterDracut)

\* mutant: both names are run, whatever the first attempt gave
UG_Grub2Mkconfig_RunsBoth ==
    /\ pc = "grub2"
    /\ UNCHANGED <<auxVars, fatal, selVars, endVars, dot_config, cache, sbVars,
                   rebuild_called, rebuild_err>>
    /\ \/ \E rc \in {0} \cup RCs : Exec("grub2-mkconfig", rc) /\ Goto("grub")
       \/ ExecNotFound("grub2-mkconfig") /\ Goto("grub")

\* _update_grub, lines 26-30: grub2-mkconfig; CalledProcessError and
\* FileNotFoundError lead to the second name
UG_Grub2Mkconfig ==
    /\ pc = "grub2"
    /\ UNCHANGED <<auxVars, fatal, selVars, endVars, dot_config, cache, sbVars,
                   rebuild_called, rebuild_err>>
    /\ \/ Exec("grub2-mkconfig", 0) /\ RebuildReturns
       \/ \E rc \in RCs : Exec("grub2-mkconfig", rc) /\ Goto("grub")
       \/ ExecNotFound("grub2-mkconfig") /\ Goto("grub")

\* mutant: a failing grub-mkconfig is logged and its exit code returned
UG_GrubMkconfig_ReturnsCode ==
    /\ pc = "grub"
    /\ UNCHANGED <<auxVars, fatal, selVars, endVars, dot_config, cache, sbVars,
                   rebuild_called, rebuild_err>>
    /\ \/ \E rc \in {0} \cup RCs : Exec("grub-mkconfig", rc) /\ RebuildReturns
       \/ ExecNotFound("grub-mkconfig") /\ RebuildReturns

\* _update_grub, lines 31-32: grub-mkconfig, checked, nothing caught
UG_GrubMkconfig ==
    /\ pc = "grub"
    /\ UNCHANGED <<auxVars, fatal, selVars, endVars, dot_config, cache, sbVars,
                   rebuild_called>>
    /\ \/ Exec("grub-mkconfig", 0) /\ RebuildReturns /\ UNCHANGED rebuild_err
       \/ \E rc \in RCs :
            /\ Exec("grub-mkconfig", rc)
            /\ RebuildRaises(CalledProcessError("grub-mkconfig", rc))
       \/ /\ ExecNotFound("grub-mkconfig")
          /\ RebuildRaises(FileNotFoundError("grub-mkconfig"))

(***************************************************************************)
(* _update_systemd_boot and its helpers.                                   *)
(***************************************************************************)
\* first lines of the output of `bootctl -p`, stripped
EspPaths == {"", "/efi"}

\* mutant: an empty ESP path is accepted
EspMissing_Never(path) == FALSE

\* `if not _esp_path()` (line 138)
EspMissing(path) == path = ""

\* _esp_path() (lines 131-134) at line 138, and the check of line 139
SB_EspPath ==
    /\ pc = "esp"
    /\ UNCHANGED <<auxVars, fatal, selVars, endVars, dot_config, sbVars, rebuild_called>>
    /\ \/ \E rc \in RCs :
            /\ Exec("bootctl -p", rc)
            /\ RebuildRaises(CalledProcessError("bootctl -p", rc))
            /\ UNCHANGED cache
       \/ \E path \in EspPaths :
            /\ Exec("bootctl -p", 0)
            /\ cache' = [cache EXCEPT !["esp_path"] = path]
            /\ IF EspMissing(path)
               THEN RebuildRaises(KernelConfigError("bootctl -p returned empty string"))
               ELSE Goto("bootctl_update") /\ UNCHANGED rebuild_err

\* lines 42-43: a stderr line that does not make the update count as failed
Benign(kind) == kind \in {"token", "skipping"}

\* lines 40-46: ok stays True unless some line is not benign
UpdateOk(stderr) == \A i \in 1..Len(stderr) : Benign(stderr[i])

\* _bootctl_update_or_install, lines 37-46: bootctl update
SB_BootctlUpdate ==
    /\ pc = "bootctl_update"
    /\ UNCHANGED <<auxVars, fatal, selVars, endVars, dot_config, cache, sign,
                   rebuild_called, rebuild_err>>
    /\ \/ /\ Exec("bootctl update", 0)
          /\ Goto("kver")
          /\ UNCHANGED update_stderr
       \/ \E rc \in RCs, stderr \in SeqsUpTo(StderrKinds, MaxStderr) :
            /\ Exec("bootctl update", rc)
            /\ update_stderr' = stderr
            /\ IF UpdateOk(stderr) THEN Goto("kver") ELSE Goto("bootctl_install")

\* _bootctl_update_or_install, line 47: bootctl install --graceful
SB_BootctlInstall ==
    /\ pc = "bootctl_install"
    /\ UNCHANGED <<auxVars, fatal, selVars, endVars, dot_config, cache, sbVars,
                   rebuild_called>>
    /\ \E rc \in {0} \cup RCs :
         /\ Exec("bootctl install", rc)
         /\ IF rc # 0
            THEN RebuildRaises(CalledProcessError("bootctl install", rc))
            ELSE Goto("kver") /\ UNCHANGED rebuild_err

\* results of _get_kernel_version(): None or the version
KernelVersions == {None, "6.1"}

\* mutant: an undetected version is accepted
VersionMissing_Never(v) == FALSE

\* `if not kernel_version` (line 142)
VersionMissing(v) == v = None

\* lines 141-144 with _get_kernel_version() (lines 101-109): the version is
\* read from include/generated/autoconf.h.  The exception e of line 39 and
\* its stderr do not exist any more once the except clause has ended.
SB_KernelVersion ==
    /\ pc = "kver"
    /\ UNCHANGED <<auxVars, fatal, selVars, endVars, dot_config, sign, rebuild_called>>
    /\ update_stderr' = <<>>
    /\ \E v \in KernelVersions :
         /\ FileOps(<<"read autoconf.h">>)
         /\ cache' = [cache EXCEPT !["kernel_version"] = v]
         /\ IF VersionMissing(v)
            THEN RebuildRaises(RuntimeError("Failed to detect Linux version"))
            ELSE /\ Goto(IF cache["uefi_unified"] = Yes THEN "sign" ELSE "kinstall")
                 /\ UNCHANGED rebuild_err

\* lines 145-151: kernel-install add <version><suffix> /boot/vmlinuz-...
\* mutant: /boot is cleaned right after kernel-install add, before signing
SB_KernelInstallAdd_ThenCleans ==
    /\ pc = "kinstall"
    /\ UNCHANGED <<auxVars, fatal, selVars, endVars, dot_config, cache, sbVars,
                   rebuild_called>>
    /\ \E rc \in {0} \cup RCs :
         /\ ExecF("kernel-install add", rc,
                  IF rc = 0 THEN <<"unlink /boot files">> ELSE <<>>)
         /\ IF rc # 0
            THEN RebuildRaises(CalledProcessError("kernel-install add", rc))
            ELSE Goto("sign") /\ UNCHANGED rebuild_err

SB_KernelInstallAdd == RK_Checked("kinstall", "kernel-install add", "sign")

\* line 153-155 when rebuild_kernel then returns: the files of the new
\* version are deleted from /boot
CleanupBoot == <<"unlink /boot files">>

\* _maybe_sign_exes, lines 52-69, up to the first command.  Python reads
\* the condition of line 63 as
\*   (not db_key) or ((not db_crt) and 'Secure Boot: enabled' in status)
\* so `bootctl status` is run only with a key and without a certificate.
MS_Config ==
    /\ pc = "sign"
    /\ UNCHANGED <<auxVars, fatal, selVars, endVars, dot_config, cache, update_stderr,
                   rebuild_called, rebuild_err>>
    /\ \E key \in BOOLEAN, crt \in BOOLEAN :
         /\ sign' = [db_key |-> key, db_crt |-> crt, i |-> IF key /\ crt THEN 1 ELSE 0,
                     secure_boot |-> Unset]
         /\ IF ~key
            THEN FileOps(<<"read upkeeprc">> \o CleanupBoot) /\ RebuildReturns
            ELSE IF ~crt
                 THEN FileOps(<<"read upkeeprc">>) /\ Goto("bootctl_status")
                 ELSE /\ FileOps(<<"read upkeeprc", "copy BOOTX64.EFI">>)
                      /\ Goto("sbsign")

\* _maybe_sign_exes, lines 63-71: bootctl status, reached without a
\* certificate
MS_BootctlStatus ==
    /\ pc = "bootctl_status"
    /\ UNCHANGED <<auxVars, fatal, selVars, endVars, dot_config, cache, update_stderr,
                   rebuild_called>>
    /\ \/ \E rc \in RCs :
            /\ Exec("bootctl status", rc)
            /\ RebuildRaises(CalledProcessError("bootctl status", rc))
            /\ UNCHANGED sign
       \/ \E secure_boot \in BOOLEAN :
            /\ UNCHANGED rebuild_err
            /\ IF secure_boot
               THEN /\ ExecF("bootctl status", 0, CleanupBoot)
                    /\ RebuildReturns
                    /\ sign' = [sign EXCEPT !.secure_boot = Yes]
               ELSE /\ ExecF("bootctl status", 0, <<"copy BOOTX64.EFI">>)
                    /\ sign' = [sign EXCEPT !.i = 1, !.secure_boot = No]
                    /\ Goto("sbsign")

\* lines 77-81: sbsign --key db_key --cert db_crt ... for file i
MS_Sbsign ==
    /\ pc = "sbsign"
    /\ UNCHANGED <<auxVars, fatal, selVars, endVars, dot_config, cache, sbVars,
                   rebuild_called>>
    /\ \E rc \in {0} \cup RCs :
         /\ Exec("sbsign", rc)
         /\ IF rc # 0
            THEN RebuildRaises(CalledProcessError("sbsign", rc))
            ELSE Goto("sbverify") /\ UNCHANGED rebuild_err

\* number of (input, output) pairs in files_to_sign (lines 72-75)
FilesToSign == 2

\* lines 82-86: sbverify for file i; after the last file the temporary
\* copy is deleted and _update_systemd_boot cleans /boot
MS_Sbverify ==
    /\ pc = "sbverify"
    /\ UNCHANGED <<auxVars, fatal, selVars, endVars, dot_config, cache, update_stderr,
                   rebuild_called>>
    /\ \/ \E rc \in RCs :
            /\ Exec("sbverify", rc)
            /\ RebuildRaises(CalledProcessError("sbverify", rc))
            /\ UNCHANGED sign
       \/ /\ UNCHANGED rebuild_err
          /\ IF sign.i < FilesToSign
             THEN /\ Exec("sbverify", 0)
                  /\ sign' = [sign EXCEPT !.i = sign.i + 1]
                  /\ Goto("sbsign")
             ELSE /\ ExecF("sbverify", 0, <<"unlink tmp">> \o CleanupBoot)
                  /\ UNCHANGED sign
                  /\ RebuildReturns

(***************************************************************************)
(* upgrade_kernel after rebuild_kernel has returned.                       *)
(***************************************************************************)
\* mutant: only None counts, an empty version is let through
NotOldKernel_OnlyNone(o) == o.kind = "none"

\* `not old_kernel` (line 325): None or the empty text
NotOldKernel(o) == o.kind = "none" \/ o.text = <<>>

\* mutant: _uefi_unified() is not memoized and runs grep on every call
AfterOldKernel_NoCache == "uefi2"

\* the pc after line 329: _uefi_unified() answers from its cache when it
\* has been asked before, else it has to run grep now
AfterOldKernel ==
    IF cache["uefi_unified"] = Unset THEN "uefi2"
    ELSE IF cache["uefi_unified"] = Yes THEN "remove_efi" ELSE "kremove"

\* the rollback of lines 234-235 has been run (and has succeeded, or the
\* run would have ended there)
RolledBack ==
    \E i \in 1..Len(hist) - 1 :
        hist[i] \in {"find mv", "make install"} /\ hist[i + 1] = "eselect set 1"

\* the entry /usr/src/linux points to when line 316 is reached: the one of
\* the last `eselect kernel set` (line 308, or 1 after the rollback)
CurrentSelection == IF RolledBack THEN 1 ELSE unselected

\* eselect marks with '*' the entry the symlink points to and no other
ShowsSelection(out, n) ==
    \A i \in 1..Len(out) :
        HasBracketIndex(Strip(out[i])) =>
            (EndsWithStar(Strip(out[i])) <=> BracketIndex(Strip(out[i])) = n)

\* what the second listing can read with entry 1, with entry 2 selected
Listings2 ==
    [n \in {1, 2} |-> {l \in SeqsUpTo(Line2Set, MaxLines2) : ShowsSelection(l, n)}]

\* lines 316-329: the second full listing and the search for old_kernel
UK_List2 ==
    /\ pc = "list2"
    /\ UNCHANGED <<auxVars, fatal, selVars, dot_config, cache, sbVars, rebuild_called,
                   rebuild_err>>
    /\ \/ \E rc \in RCs :
            /\ Exec("eselect list", rc)
            /\ Raise(CalledProcessError("eselect list", rc))
            /\ UNCHANGED endVars
       \/ \E out \in Listings2[CurrentSelection] :
            LET o == OldKernel(StrippedLines(out))
            IN  /\ Exec("eselect list", 0)
                /\ kernel_list2' = out
                /\ old_kernel' = o.text
                /\ IF o.kind = "error"
                   THEN Raise(IndexError)
                   ELSE IF NotOldKernel(o)
                        THEN IF ~fatal
                             THEN Return
                             ELSE Raise(KernelConfigError(
                                        "Failed to determine old kernel version"))
                        ELSE Goto(AfterOldKernel)

\* line 330 when _uefi_unified() has not been asked in this process (GRUB
\* is installed): grep over /etc/dracut.conf.d/*.conf
UK_UefiUnified ==
    /\ pc = "uefi2"
    /\ UNCHANGED <<auxVars, fatal, selVars, endVars, dot_config, sbVars, rebuild_called,
                   rebuild_err>>
    /\ \/ /\ Exec("grep uefi", 0)
          /\ cache' = [cache EXCEPT !["uefi_unified"] = Yes]
          /\ Goto("remove_efi")
       \/ \E rc \in RCs :
            /\ Exec("grep uefi", rc)
            /\ cache' = [cache EXCEPT !["uefi_unified"] = No]
            /\ Goto("kremove")
       \/ /\ ExecNotFound("grep uefi")
          /\ Raise(FileNotFoundError("grep uefi"))
          /\ UNCHANGED cache

\* mutant: after the .efi files kernel-install remove is run as well
UK_RemoveEfi_AlsoKernelInstall ==
    /\ pc = "remove_efi"
    /\ UNCHANGED <<auxVars, fatal, selVars, endVars, dot_config, sbVars, rebuild_called,
                   rebuild_err>>
    /\ IF cache["esp_path"] # Unset
       THEN /\ FileOps(<<"unlink old .efi">>)
            /\ Goto("kremove")
            /\ UNCHANGED cache
       ELSE \/ \E rc \in RCs :
                 /\ Exec("bootctl -p", rc)
                 /\ Raise(CalledProcessError("bootctl -p", rc))
                 /\ UNCHANGED cache
            \/ \E path \in EspPaths :
                 /\ ExecF("bootctl -p", 0, <<"unlink old .efi">>)
                 /\ cache' = [cache EXCEPT !["esp_path"] = path]
                 /\ Goto("kremove")

\* lines 331-333: the .efi files of the old kernel are deleted under
\* _esp_path()/EFI/Linux; _esp_path() runs `bootctl -p` unless cached
UK_RemoveEfi ==
    /\ pc = "remove_efi"
    /\ UNCHANGED <<auxVars, fatal, selVars, endVars, dot_config, sbVars, rebuild_called,
                   rebuild_err>>
    /\ IF cache["esp_path"] # Unset
       THEN /\ FileOps(<<"unlink old .efi">>)
            /\ Return
            /\ UNCHANGED cache
       ELSE \/ \E rc \in RCs :
                 /\ Exec("bootctl -p", rc)
                 /\ Raise(CalledProcessError("bootctl -p", rc))
                 /\ UNCHANGED cache
            \/ \E path \in EspPaths :
                 /\ ExecF("bootctl -p", 0, <<"unlink old .efi">>)
                 /\ cache' = [cache EXCEPT !["esp_path"] = path]
                 /\ Return

\* lines 335-337: kernel-install remove <old_kernel><suffix>
UK_KernelInstallRemove ==
    /\ pc = "kremove"
    /\ UNCHANGED <<auxVars, fatal, selVars, endVars, dot_config, cache, sbVars,
                   rebuild_called, rebuild_err>>
    /\ \E rc \in {0} \cup RCs :
         /\ Exec("kernel-install remove", rc)
         /\ IF rc # 0
            THEN Raise(CalledProcessError("kernel-install remove", rc))
            ELSE Return

(***************************************************************************)
(* A user interrupt, and the CLI entry points around a run.                *)
(***************************************************************************)
KeyboardInterrupt == [type |-> "KeyboardInterrupt", cmd |-> "", rc |-> 0]

\* the pcs of upgrade_kernel and rebuild_kernel at which the process is
\* blocked in sp.run
RebuildBlocking ==
    {"oldconfig", "make", "modules_install", "module_rebuild", "archive",
     "install", "rollback_archive", "rollback_install", "has_grub", "uefi",
     "dracut", "grub2", "grub", "esp", "bootctl_update", "bootctl_install",
     "kinstall", "bootctl_status", "sbsign", "sbverify"}
UpgradeBlocking == {"list", "brief", "set", "list2", "uefi2", "kremove"}
\* the pcs of the emerges and esync commands, all blocked in sp.run but
\* "em_upgrade", the call of upgrade_kernel
EmergesPcs ==
    {"em_portage", "em_world", "em_live", "em_preserved", "em_probe",
     "em_reexec", "em_upgrade"}
EsyncPcs == {"es_layman_check", "es_layman", "es_eix_check", "es_eix_sync"}
\* the pcs of ecleans of src/upkeep.py, one for each _check_call
EcleansPcs == {"ec_depclean", "ec_preserved", "ec_revdep", "ec_dist", "ec_rm"}
Blocking ==
    RebuildBlocking \cup UpgradeBlocking \cup (EmergesPcs \ {"em_upgrade"})
        \cup EsyncPcs \cup EcleansPcs

\* Ctrl-C while sp.run waits for a command: KeyboardInterrupt leaves sp.run.
\* No except clause of utils/kernel.py or of CommandRunner.run names it
\* (they name CalledProcessError, FileNotFoundError and KernelConfigError),
\* so it leaves rebuild_kernel and upgrade_kernel.
Interrupt ==
    /\ pc \in Blocking
    /\ UNCHANGED <<auxVars, fatal, selVars, endVars, dot_config, cache, sbVars,
                   rebuild_called, last_rc, failed, enoent>>
    /\ hist' = Append(hist, "KeyboardInterrupt")
    /\ rebuild_err' = IF pc \in RebuildBlocking THEN KeyboardInterrupt
                      ELSE rebuild_err
    /\ Raise(KeyboardInterrupt)

\* how a called function ended
Ending(o, e) == [outcome |-> o, err |-> e]

\* mutant: the error is logged and ret returns normally
kernel_command_ret_Swallows(end) ==
    IF end.outcome = "raised" /\ end.err.type = "KernelConfigError"
    THEN Ending("returned", NoErr)
    ELSE end

\* kernel_command.ret (commands/kernel.py, lines 44-48): KernelConfigError
\* out of func becomes click.Abort, everything else passes
kernel_command_ret(end) ==
    IF end.outcome = "raised" /\ end.err.type = "KernelConfigError"
    THEN Ending("raised", Abort)
    ELSE end

\* mutant: KeyboardInterrupt is not handled at the top level
click_main_PassesInterrupt(end) ==
    IF end.outcome = "returned"
    THEN [status |-> "zero", unhandled |-> FALSE]
    ELSE IF end.err.type = "Abort"
         THEN [status |-> "nonzero", unhandled |-> FALSE]
         ELSE [status |-> "nonzero", unhandled |-> TRUE]

\* the process exit of a click command in standalone mode (@click.command):
\* 0 after a normal return; Abort, and KeyboardInterrupt which click turns
\* into Abort, print "Aborted!" and exit 1; any other exception leaves
\* main() unhandled (traceback, exit status 1)
click_main(end) ==
    IF end.outcome = "returned"
    THEN [status |-> "zero", unhandled |-> FALSE]
    ELSE IF end.err.type \in {"Abort", "KeyboardInterrupt"}
         THEN [status |-> "nonzero", unhandled |-> FALSE]
         ELSE [status |-> "nonzero", unhandled |-> TRUE]

\* the upgrade-kernel command: kernel_command(upgrade_kernel), which calls
\* upgrade_kernel(number_of_jobs, config) and so with fatal = True
upgrade_kernel_command == click_main(kernel_command_ret(Ending(outcome, err)))

(***************************************************************************)
(* The emerges command (commands/emerges.py).                              *)
(***************************************************************************)
EmergesFlags == {"-L", "-P", "-D", "-U"}
live_rebuild == "-L" \notin opts
preserved_rebuild == "-P" \notin opts
daemon_reexec == "-D" \notin opts
up_kernel == "-U" \notin opts

\* lines 95-96: the last statement; without it emerges returns
AfterDaemonReexec == IF up_kernel THEN "em_upgrade" ELSE "em_end"
\* lines 89-94
AfterEmerge == IF daemon_reexec THEN "em_probe" ELSE AfterDaemonReexec
\* lines 78-85
AfterLiveRebuild == IF preserved_rebuild THEN "em_preserved" ELSE AfterEmerge
\* mutant: --no-live-rebuild is not looked at
AfterWorld_IgnoresFlag == "em_live"

\* lines 76-77
AfterWorld == IF live_rebuild THEN "em_live" ELSE AfterLiveRebuild

EM_Continue(next) == IF next = "em_end" THEN Return ELSE Goto(next)

EM_Frame ==
    UNCHANGED <<envVars, suffixVars, opts, umaskVars, fatal, selVars, endVars, dot_config, cache,
                sbVars, rebuild_called, rebuild_err>>

\* mutant: a failing emerge step is reported and the next step is run
EM_Emerge_KeepsGoing(at, op, next) ==
    /\ pc = at
    /\ EM_Frame
    /\ \E rc \in {0} \cup RCs : Exec(op, rc) /\ EM_Continue(next)

\* one runner.check_call of the try block of lines 70-88: a non-zero exit
\* is echoed and becomes click.Abort
EM_Emerge(at, op, next) ==
    /\ pc = at
    /\ EM_Frame
    /\ \E rc \in {0} \cup RCs :
         /\ Exec(op, rc)
         /\ IF rc # 0 THEN Raise(Abort) ELSE EM_Continue(next)

\* line 71
EM_Portage == EM_Emerge("em_portage", "emerge portage", "em_world")
\* lines 72-75
EM_World == EM_Emerge("em_world", "emerge @world", AfterWorld)
\* lines 76-77
EM_LiveRebuild == EM_Emerge("em_live", "emerge @live-rebuild", AfterLiveRebuild)
\* lines 78-85
EM_PreservedRebuild ==
    EM_Emerge("em_preserved", "emerge @preserved-rebuild", AfterEmerge)

\* mutant: daemon-reexec is run whatever the probe says
EM_SystemctlProbe_Ignored ==
    /\ pc = "em_probe"
    /\ EM_Frame
    /\ \E rc \in {0} \cup RCs :
         Exec("command -v systemctl", rc) /\ Goto("em_reexec")

\* lines 90-94: bash -c 'command -v systemctl'; CalledProcessError is
\* swallowed and daemon-reexec is skipped
EM_SystemctlProbe ==
    /\ pc = "em_probe"
    /\ EM_Frame
    /\ \E rc \in {0} \cup RCs :
         /\ Exec("command -v systemctl", rc)
         /\ IF rc # 0 THEN EM_Continue(AfterDaemonReexec) ELSE Goto("em_reexec")

\* lines 92-94: systemctl daemon-reexec; CalledProcessError is swallowed
EM_DaemonReexec ==
    /\ pc = "em_reexec"
    /\ EM_Frame
    /\ \E rc \in {0} \cup RCs :
         /\ Exec("systemctl daemon-reexec", rc)
         /\ EM_Continue(AfterDaemonReexec)

\* line 96: upgrade_kernel(None, fatal=fatal_upgrade_kernel).  The record of
\* the emerges steps ends here: what follows is a run of upgrade_kernel from
\* its first statement, and emerges ends as that run ends.
EM_UpgradeKernel ==
    /\ pc = "em_upgrade"
    /\ pc' = "list"
    /\ hist' = <<>>
    /\ failed' = {}
    /\ enoent' = {}
    /\ last_rc' = 0
    /\ opts' = {}
    /\ UNCHANGED <<envVars, suffixVars, umaskVars, fatal, selVars, endVars, dot_config, cache,
                   sbVars,
                   rebuild_called, rebuild_err, outcome, err>>

\* the exit of the emerges command
emerges_command == click_main(Ending(outcome, err))

(***************************************************************************)
(* The esync command (commands/esync.py).                                  *)
(***************************************************************************)
EsyncFlags == {"-l", "-d"}
run_layman == "-l" \in opts
debug == "-d" \in opts

\* mutant: a failing step is logged and esync goes on
ES_Step_KeepsGoing(at, op, next) ==
    /\ pc = at
    /\ EM_Frame
    /\ \E rc \in {0} \cup RCs :
         /\ Exec(op, rc)
         /\ IF next = "es_end" THEN Return ELSE Goto(next)

\* one runner.run of esync: CalledProcessError becomes click.Abort
ES_Step(at, op, next) ==
    /\ pc = at
    /\ EM_Frame
    /\ \E rc \in {0} \cup RCs :
         /\ Exec(op, rc)
         /\ IF rc # 0 THEN Raise(Abort)
            ELSE IF next = "es_end" THEN Return ELSE Goto(next)

\* lines 30-34
ES_LaymanCheck == ES_Step("es_layman_check", "command -v layman", "es_layman")
\* lines 35-38
ES_LaymanSync == ES_Step("es_layman", "layman -S", "es_eix_check")
\* lines 39-43
ES_EixCheck == ES_Step("es_eix_check", "command -v eix-sync", "es_eix_sync")
\* line 44
sync_args == IF debug THEN "eix-sync -a" ELSE "eix-sync -a -q -H"
\* lines 45-48
ES_EixSync == ES_Step("es_eix_sync", sync_args, "es_end")

\* the exit of the esync command
esync_command == click_main(Ending(outcome, err))

(***************************************************************************)
(* The ecleans command, as src/upkeep.py has it (lines 209-240) and as     *)
(* src/upkeep/commands/ecleans.py has it (lines 13-37).                    *)
(***************************************************************************)
TypeError == [type |-> "TypeError", cmd |-> "", rc |-> 0]

\* `return 0` / `return e.returncode`: the function returns an exit code
ReturnCode(op, rc) ==
    /\ pc' = "done"
    /\ outcome' = "returned"
    /\ err' = [type |-> "returncode", cmd |-> op, rc |-> rc]

\* src/upkeep.py, lines 226-240: one _check_call of the try block; a
\* non-zero exit is caught and its return code returned, `return 0` follows
\* the last command
EC_Step(at, op, next) ==
    /\ pc = at
    /\ EM_Frame
    /\ \E rc \in {0} \cup RCs :
         /\ Exec(op, rc)
         /\ IF rc # 0 THEN ReturnCode(op, rc)
            ELSE IF next = "ec_end" THEN ReturnCode("", 0) ELSE Goto(next)

\* line 227
EC_Depclean == EC_Step("ec_depclean", "emerge --depclean", "ec_preserved")
\* line 228
EC_PreservedRebuild ==
    EC_Step("ec_preserved", "emerge --quiet @preserved-rebuild", "ec_revdep")
\* line 229
EC_RevdepRebuild == EC_Step("ec_revdep", "revdep-rebuild", "ec_dist")
\* line 230
EC_EcleanDist == EC_Step("ec_dist", "eclean-dist", "ec_rm")
\* lines 231-233
EC_Rm == EC_Step("ec_rm", "rm -fR /var/tmp/portage/*", "ec_end")

\* the commands of ecleans of src/upkeep.py in the order of the try block
UpkeepPyEcleansCommands ==
    <<"emerge --depclean", "emerge --quiet @preserved-rebuild",
      "revdep-rebuild", "eclean-dist", "rm -fR /var/tmp/portage/*">>

\* commands/ecleans.py, lines 13-16
ECLEANS_COMMANDS ==
    <<"emerge --depclean", "emerge --quiet @preserved-rebuild",
      "revdep-rebuild", "eclean-dist", "eclean-pkg",
      "rm -fR /var/tmp/portage/*">>

\* commands/ecleans.py, lines 33-37: the first pass of the loop calls
\* CommandRunner.check_call(command) on the class.  check_call (utils,
\* lines 65-74) is an instance method, so command is bound to self and args
\* is missing: TypeError, before sp.run is reached.  The except clause
\* names CalledProcessError only.
EC_CheckCall ==
    /\ pc = "ec_loop"
    /\ EM_Frame
    /\ UNCHANGED <<hist, failed, enoent, last_rc>>
    /\ Raise(TypeError)

\* the exit code of a console script that ends with sys.exit(f()), and of
\* @graceful_interrupt (src/upkeep.py, lines 76-87): the returned code, 1
\* after KeyboardInterrupt, 1 with a traceback after any other exception
sys_exit(end) ==
    IF end.outcome = "returned"
    THEN IF end.err.type = "returncode" THEN end.err.rc ELSE 0
    ELSE 1

\* the exit code of ecleans of src/upkeep.py
ecleans == sys_exit(Ending(outcome, err))

\* the exit code of a click command in standalone mode: 0 after a return,
\* 1 after Abort, KeyboardInterrupt and any unhandled exception
click_exit_code(end) == IF end.outcome = "returned" THEN 0 ELSE 1

\* the exit code of the ecleans command of the package
ecleans_command == click_exit_code(Ending(outcome, err))

(***************************************************************************)
(* minenv() and the environment CommandRunner.run hands to a subprocess    *)
(* (upkeep/utils/__init__.py).  Two processes are modelled side by side,   *)
(* each with its own os.environ and its own lru_cache.                     *)
(***************************************************************************)
\* constants.py, lines 23-25
SPECIAL_ENV ==
    {"CONFIG_PROTECT", "CONFIG_PROTECT_MASK", "FEATURES", "HOME", "LANG",
     "MAKEOPTS", "PATH", "PORTAGE_COMPRESSION_COMMAND", "SHELL",
     "SSH_AGENT_PID", "SSH_AUTH_SOCK", "TERM", "USE"}

\* the variables an ambient environment of the model may hold, and their
\* values; Absent stands for a variable that is not set
EnvNames == {"PATH", "USE", "LD_PRELOAD"}
Absent == "<absent>"
EnvValues == {Absent, "", "a"}
Environs == [EnvNames -> EnvValues]
Procs == {1, 2}

\* environ.get(key) is truthy: the variable is set and not empty
Truthy(e, key) == key \in DOMAIN e /\ e[key] \notin {Absent, ""}

\* mutant: the whole ambient environment is copied
minenv_CopiesAll(e) == [key \in {k \in DOMAIN e : Truthy(e, k)} |-> e[key]]

\* minenv() (lines 32-38) on os.environ = e
minenv(e) == [key \in {k \in SPECIAL_ENV : Truthy(e, k)} |-> e[key]]

\* constants.py, line 13
DISABLE_GETBINPKG_ENV_DICT == [key \in {"FEATURES"} |-> "-getbinpkg"]
EmptyDict == [key \in {} |-> ""]

\* the parameter env of CommandRunner.run: None, {} or a mapping
EnvArgs ==
    {[given |-> FALSE, env |-> EmptyDict],
     [given |-> TRUE, env |-> EmptyDict],
     [given |-> TRUE, env |-> DISABLE_GETBINPKG_ENV_DICT]}

NoChild == [set |-> FALSE, given |-> FALSE, env |-> EmptyDict]
NoCache == [set |-> FALSE, env |-> EmptyDict]

\* CommandRunner.run, lines 50-55: sp.run(args, ..., env=env or minenv()) in
\* process i; minenv() is computed on its first call and cached
CommandRunner_run ==
    /\ pc = "run"
    /\ UNCHANGED <<kernelVars, environ, opts, umaskVars, suffixVars>>
    /\ \E i \in Procs, arg \in EnvArgs :
         LET use_arg == arg.given /\ DOMAIN arg.env # {}
             m == IF minenv_cache[i].set THEN minenv_cache[i].env
                  ELSE minenv(environ[i])
         IN  /\ minenv_cache' =
                  IF use_arg THEN minenv_cache
                  ELSE [minenv_cache EXCEPT ![i] = [set |-> TRUE, env |-> m]]
             /\ child_env' =
                  [child_env EXCEPT
                     ![i] = [set |-> TRUE, given |-> arg.given,
                             env |-> IF use_arg THEN arg.env ELSE m]]

(***************************************************************************)
(* _get_kernel_version_suffix() as a function of the text of .config, and  *)
(* `suffix = _get_kernel_version_suffix() or ''` of rebuild_kernel.        *)
(***************************************************************************)
\* largest number of lines of .config
MaxConfigLines == 2

Whitespace == {" ", "\n", "\t"}

\* str.strip() with line breaks and tabs
StripWs(s) ==
    LET nb == {i \in 1..Len(s) : s[i] \notin Whitespace}
    IN  IF nb = {} THEN <<>>
        ELSE LET lo == CHOOSE i \in nb : \A j \in nb : i <= j
                 hi == CHOOSE i \in nb : \A j \in nb : j <= i
             IN  SubSeq(s, lo, hi)

\* a line of .config is a sequence of characters, but for the name of an
\* option, which is one element
KeyLocalversion == "CONFIG_LOCALVERSION"
Quote == "\""

\* line.startswith('CONFIG_LOCALVERSION=')
StartsWithKey(line) ==
    Len(line) >= 2 /\ line[1] = KeyLocalversion /\ line[2] = "="

\* s.split('=')[1] of a line with at least one '=': the text between the
\* first '=' and the next one, or the end
SplitEq1(s) ==
    LET eqs == {i \in 1..Len(s) : s[i] = "="}
        first == CHOOSE i \in eqs : \A j \in eqs : i <= j
        rest == {i \in eqs : i > first}
        stop == IF rest = {} THEN Len(s) + 1
                ELSE CHOOSE i \in rest : \A j \in rest : i <= j
    IN  SubSeq(s, first + 1, stop - 1)

\* t[1:-1]
Slice1m1(t) == SubSeq(t, 2, Len(t) - 1)

\* mutant: the quotes are not cut off
TmpSuffix_KeepsQuotes(line) == StripWs(SplitEq1(StripWs(line)))

\* line 94: line.strip().split('=')[1][1:-1].strip()
TmpSuffix(line) == StripWs(Slice1m1(SplitEq1(StripWs(line))))

\* lines 91-98: the first line that starts with CONFIG_LOCALVERSION=
\* decides; an empty value and a file without such a line give None
RECURSIVE get_kernel_version_suffix(_)
get_kernel_version_suffix(f) ==
    IF f = <<>> THEN NoText
    ELSE IF StartsWithKey(Head(f))
         THEN IF TmpSuffix(Head(f)) # <<>> THEN TmpSuffix(Head(f)) ELSE NoText
         ELSE get_kernel_version_suffix(Tail(f))

\* `x or ''` for x a text or None
OrEmpty(x) == IF x = NoText \/ x = <<>> THEN <<>> ELSE x

\* the lines a .config of the model may have
CfgEmpty == <<KeyLocalversion, "=", Quote, Quote, "\n">>
CfgCustom ==
    <<KeyLocalversion, "=", Quote, "-", "c", "u", "s", "t", "o", "m", Quote,
      "\n">>
CfgBlank == <<KeyLocalversion, "=", Quote, " ", Quote, "\n">>
CfgBare == <<KeyLocalversion, "=", "-", "r", "c", "\n">>
CfgEquals == <<KeyLocalversion, "=", Quote, "a", "=", "b", Quote, "\n">>
CfgAuto == <<"CONFIG_LOCALVERSION_AUTO", "=", "y", "\n">>
CfgOther == <<"CONFIG_SMP", "=", "y", "\n">>
ConfigLines ==
    {CfgEmpty, CfgCustom, CfgBlank, CfgBare, CfgEquals, CfgAuto, CfgOther}

NoCall == <<Unset>>

\* line 210 with lines 89-98: .config is read and suffix is set
GetKernelVersionSuffix ==
    /\ pc = "read_config"
    /\ probe_ret' = get_kernel_version_suffix(config_text)
    /\ suffix' = OrEmpty(get_kernel_version_suffix(config_text))
    /\ FileOps(<<"read .config">>)
    /\ Return
    /\ UNCHANGED <<envVars, opts, umaskVars, config_text, fatal, selVars,
                   endVars, dot_config, cache, sbVars, rebuild_called,
                   rebuild_err>>

(***************************************************************************)
(* The decorator umask (decorators.py): inner sets the mask, calls the     *)
(* decorated function and, when restore is set, sets the old mask again.   *)
(* src/upkeep.py has the same decorator without the parameter restore and  *)
(* without the second set_umask, which is inner with restore = False.      *)
(***************************************************************************)
Umasks == {"0o022", "0o077", "0o002"}
NoUmask == "unset"

\* what may leave the decorated function
FuncRaises == {Abort, KeyboardInterrupt}

\* line 21: old_umask = set_umask(new_umask); os.umask returns the old mask
UM_SetUmask ==
    /\ pc = "um_set"
    /\ old_umask' = process_umask
    /\ process_umask' = new_umask
    /\ Goto("um_func")
    /\ UNCHANGED <<envVars, suffixVars, opts, new_umask, restore, fatal, selVars, endVars,
                   dot_config, cache, sbVars, rebuild_called, rebuild_err,
                   hist, last_rc, failed, enoent>>

\* line 22: ret = func(*args, **kwargs); an exception of func leaves inner,
\* since the call is in no try statement
UM_Func ==
    /\ pc = "um_func"
    /\ \/ Goto("um_restore")
       \/ \E e \in FuncRaises : Raise(e)
    /\ hist' = Append(hist, "func")
    /\ UNCHANGED <<envVars, suffixVars, opts, umaskVars, fatal, selVars, endVars,
                   dot_config, cache, sbVars, rebuild_called, rebuild_err,
                   last_rc, failed, enoent>>

\* lines 23-25: if restore: set_umask(old_umask); return ret
UM_Restore ==
    /\ pc = "um_restore"
    /\ process_umask' = IF restore THEN old_umask ELSE process_umask
    /\ Return
    /\ UNCHANGED <<envVars, suffixVars, opts, new_umask, restore, old_umask, fatal,
                   selVars, endVars, dot_config, cache, sbVars, rebuild_called,
                   rebuild_err, hist, last_rc, failed, enoent>>

(***************************************************************************)
(* The run.                                                                *)
(***************************************************************************)
\* the CLI commands run under @umask(new_umask=0o022) (commands/kernel.py
\* line 41, commands/emerges.py line 28)
UmaskIdle ==
    /\ process_umask = "0o022"
    /\ new_umask = "0o022"
    /\ restore = FALSE
    /\ old_umask = NoUmask

\* no subprocess has been started, in an environment without variables
SuffixIdle ==
    /\ config_text = <<>>
    /\ probe_ret = NoCall
    /\ suffix = NoCall

EnvIdle ==
    /\ SuffixIdle
    /\ environ = [i \in Procs |-> [key \in EnvNames |-> Absent]]
    /\ minenv_cache = [i \in Procs |-> NoCache]
    /\ child_env = [i \in Procs |-> NoChild]
    /\ UmaskIdle

\* upgrade_kernel(fatal=...) is called
UK_Init ==
    /\ pc = "list"
    /\ opts = {}
    /\ fatal \in BOOLEAN
    /\ dot_config \in BOOLEAN
    /\ KernelIdle
    /\ EnvIdle

\* two processes start in their ambient environments
ENV_Init ==
    /\ pc = "run"
    /\ SuffixIdle
    /\ opts = {}
    /\ fatal = FALSE
    /\ dot_config = FALSE
    /\ KernelIdle
    /\ environ \in [Procs -> Environs]
    /\ minenv_cache = [i \in Procs |-> NoCache]
    /\ child_env = [i \in Procs |-> NoChild]
    /\ UmaskIdle

\* the emerges command is started with some of its flags
EM_Init ==
    /\ pc = "em_portage"
    /\ opts \in SUBSET EmergesFlags
    /\ fatal \in BOOLEAN
    /\ dot_config \in BOOLEAN
    /\ KernelIdle
    /\ EnvIdle

\* the esync command is started with some of its flags
ES_Init ==
    /\ opts \in SUBSET EsyncFlags
    /\ pc = IF run_layman THEN "es_layman_check" ELSE "es_eix_check"
    /\ fatal = FALSE
    /\ dot_config = FALSE
    /\ KernelIdle
    /\ EnvIdle

\* a function decorated with umask(new_umask, restore=...) is called in a
\* process with some file mode creation mask
UM_Init ==
    /\ pc = "um_set"
    /\ SuffixIdle
    /\ opts = {}
    /\ fatal = FALSE
    /\ dot_config = FALSE
    /\ KernelIdle
    /\ environ = [i \in Procs |-> [key \in EnvNames |-> Absent]]
    /\ minenv_cache = [i \in Procs |-> NoCache]
    /\ child_env = [i \in Procs |-> NoChild]
    /\ process_umask \in Umasks
    /\ new_umask \in Umasks
    /\ restore \in BOOLEAN
    /\ old_umask = NoUmask

\* ecleans() of src/upkeep.py is called
EC_Init ==
    /\ pc = "ec_depclean"
    /\ opts = {}
    /\ fatal = FALSE
    /\ dot_config = FALSE
    /\ KernelIdle
    /\ EnvIdle

\* the ecleans command of the package is started; -d only sets up logging
EC_Package_Init ==
    /\ pc = "ec_loop"
    /\ opts \in SUBSET {"-d"}
    /\ fatal = FALSE
    /\ dot_config = FALSE
    /\ KernelIdle
    /\ EnvIdle

\* rebuild_kernel reads the suffix from a .config with some lines
KS_Init ==
    /\ pc = "read_config"
    /\ config_text \in SeqsUpTo(ConfigLines, MaxConfigLines)
    /\ probe_ret = NoCall
    /\ suffix = NoCall
    /\ opts = {}
    /\ fatal = FALSE
    /\ dot_config = TRUE
    /\ KernelIdle
    /\ environ = [i \in Procs |-> [key \in EnvNames |-> Absent]]
    /\ minenv_cache = [i \in Procs |-> NoCache]
    /\ child_env = [i \in Procs |-> NoChild]
    /\ UmaskIdle

Init ==
    \/ KS_Init
    \/ EC_Init
    \/ EC_Package_Init
    \/ UK_Init
    \/ ENV_Init
    \/ EM_Init
    \/ ES_Init
    \/ UM_Init

Next ==
    \/ UK_List
    \/ UK_Brief
    \/ UK_Set
    \/ RK_ConfigCheck
    \/ RK_Oldconfig
    \/ RK_Make
    \/ RK_ModulesInstall
    \/ RK_ModuleRebuild
    \/ RK_Archive
    \/ RK_Install
    \/ RK_Rollback
    \/ RK_HasGrub
    \/ RK_UefiUnified
    \/ RK_Dracut
    \/ UG_Grub2Mkconfig
    \/ UG_GrubMkconfig
    \/ SB_EspPath
    \/ SB_BootctlUpdate
    \/ SB_BootctlInstall
    \/ SB_KernelVersion
    \/ SB_KernelInstallAdd
    \/ MS_Config
    \/ MS_BootctlStatus
    \/ MS_Sbsign
    \/ MS_Sbverify
    \/ UK_List2
    \/ UK_UefiUnified
    \/ UK_RemoveEfi
    \/ UK_KernelInstallRemove
    \/ CommandRunner_run
    \/ Interrupt
    \/ EM_Portage
    \/ EM_World
    \/ EM_LiveRebuild
    \/ EM_PreservedRebuild
    \/ EM_SystemctlProbe
    \/ EM_DaemonReexec
    \/ EM_UpgradeKernel
    \/ ES_LaymanCheck
    \/ ES_LaymanSync
    \/ ES_EixCheck
    \/ ES_EixSync
    \/ GetKernelVersionSuffix
    \/ EC_Depclean
    \/ EC_PreservedRebuild
    \/ EC_RevdepRebuild
    \/ EC_EcleanDist
    \/ EC_Rm
    \/ EC_CheckCall
    \/ UM_SetUmask
    \/ UM_Func
    \/ UM_Restore

Spec == Init /\ [][Next]_vars

\* the positions of upgrade_kernel and rebuild_kernel: the blocked calls of
\* sp.run and the code between them
KernelPcs ==
    UpgradeBlocking \cup RebuildBlocking \cup {"config", "kver", "sign", "remove_efi"}

\* a step of upgrade_kernel or of rebuild_kernel under it
KernelStep == pc \in KernelPcs /\ Next

\* every external command terminates: sp.run returns (or raises) in the
\* end, so upgrade_kernel takes its next step whenever it has one
FairSpec == Spec /\ WF_vars(KernelStep)

(***************************************************************************)
(* Vocabulary of the properties.                                           *)
(***************************************************************************)
InHist(op) == \E i \in 1..Len(hist) : hist[i] = op
Count(op) == Cardinality({i \in 1..Len(hist) : hist[i] = op})
Last == IF hist = <<>> THEN "" ELSE hist[Len(hist)]
Ran(op) == InHist(op) /\ op \notin failed

SetCmds == {"eselect set 1", "eselect set 2", "eselect set other"}
SetIssued == \E op \in SetCmds : InHist(op)

\* the commands and file operations of rebuild_kernel after the config check
BuildOps ==
    {"make oldconfig", "make -j", "make modules_install",
     "emerge @module-rebuild", "find mv", "make install", "dracut",
     "grub2-mkconfig", "grub-mkconfig", "bootctl -p", "bootctl update",
     "bootctl install", "kernel-install add", "bootctl status", "sbsign",
     "sbverify", "unlink /boot files"}
\* what the systemd-boot installer does after it has resolved the ESP
InstallerOps ==
    {"bootctl update", "bootctl install", "kernel-install add",
     "bootctl status", "sbsign", "sbverify", "copy BOOTX64.EFI", "unlink tmp",
     "unlink /boot files"}
RemovalOps == {"kernel-install remove", "unlink old .efi"}
NoneOf(ops) == \A i \in 1..Len(hist) : hist[i] \notin ops

\* the entries of the first listing as the code sees them
Entries == StrippedLines(kernel_list)
Selected(l) == EndsWithStar(l)
UsableUnselected(l) ==
    ~Selected(l) /\ HasBracketIndex(l) /\ BracketIndex(l) \in {1, 2}

\* the first listing is known and still held (rebuild_kernel not yet called)
Listed == Ran("eselect list") /\ ~rebuild_called
Briefed == Listed /\ Ran("eselect brief list")

(***************************************************************************)
(* C1: whenever the full listing has no line ending in '*', or the brief   *)
(* listing has more than 2 non-empty lines, or no unselected line carries  *)
(* a bracketed index 1 or 2, no `eselect kernel set` is issued and         *)
(* rebuild_kernel is not called, with fatal and without.  The run can only *)
(* reach rebuild_kernel through pc = "set", and the listing is held until  *)
(* then.                                                                   *)
(***************************************************************************)
C1_NoSelectedLine == \A i \in 1..Len(Entries) : ~Selected(Entries[i])
C1_TooManyBrief == Briefed /\ Len(brief_lines) > 2
C1_NoUsableIndex == \A i \in 1..Len(Entries) : ~UsableUnselected(Entries[i])

C1_NoPartialSelection ==
    (Listed /\ (C1_NoSelectedLine \/ C1_TooManyBrief \/ C1_NoUsableIndex))
        => /\ pc \in {"brief", "done"}
           /\ ~SetIssued
           /\ NoneOf(BuildOps)

C1_Witness ==
    /\ pc = "done"
    /\ fatal
    /\ kernel_list = <<LineSel1, LineHeader, LineUnsel12>>
    /\ Len(brief_lines) = 2
    /\ outcome = "raised"

(***************************************************************************)
(* C2: for a full listing of two lines, exactly one ending in '*', the     *)
(* other starting with the bracketed index 1 or 2, and a brief listing of  *)
(* at most 2 lines, upgrade_kernel issues `eselect kernel set <i>` for     *)
(* the other line's index i and starts the rebuild, whichever of the two   *)
(* lines comes first.                                                      *)
(***************************************************************************)
C2_WellFormed ==
    /\ Len(Entries) = 2
    /\ \E i, j \in 1..2 :
         /\ i # j
         /\ Selected(Entries[i])
         /\ UsableUnselected(Entries[j])

C2_OtherIndex ==
    BracketIndex(Entries[CHOOSE j \in 1..2 : UsableUnselected(Entries[j])])

C2_SelectsOtherIndexEitherOrder ==
    (Briefed /\ Len(brief_lines) <= 2 /\ C2_WellFormed)
        => \/ pc = "set" /\ unselected = C2_OtherIndex
           \/ InHist(SetCmd(C2_OtherIndex))

(***************************************************************************)
(* C3: each cannot-safely-proceed condition of upgrade_kernel (no selected *)
(* line, more than 2 brief lines, no usable unselected index, a            *)
(* KernelConfigError out of rebuild_kernel, no previous kernel to be read  *)
(* from the second listing) ends in a raised exception when fatal          *)
(* (non-zero exit) and in a normal return when not fatal (exit 0).         *)
(***************************************************************************)
C3_NoSelection == Listed /\ C1_NoSelectedLine
C3_TooManyBrief == C1_TooManyBrief
C3_NoCandidate == Briefed /\ Len(brief_lines) <= 2 /\ unselected \notin {1, 2}
C3_ConfigError == rebuild_err.type = "KernelConfigError"
C3_SecondListingRead ==
    /\ Count("eselect list") = 2
    /\ ~(Last = "eselect list" /\ last_rc # 0)
\* the first unselected indexed entry of the second listing, if any
C3_OldEntry == OldKernel(StrippedLines(kernel_list2))
\* no such entry, or one without a version behind "linux-": no previous
\* kernel can be read from the listing
C3_NoOldKernel ==
    /\ C3_SecondListingRead
    /\ C3_OldEntry.kind \in {"none", "error"} \/ C3_OldEntry.text = <<>>

C3_Ends(cond) ==
    cond =>
        /\ pc = "done"
        /\ IF fatal
           THEN outcome = "raised" /\ CliExit = "nonzero"
           ELSE outcome = "returned" /\ CliExit = "zero"

C3_FatalDecidesOutcome ==
    C3_Ends(\/ C3_NoSelection
            \/ C3_TooManyBrief
            \/ C3_NoCandidate
            \/ C3_ConfigError
            \/ C3_NoOldKernel)

\* C3 holds for the first four conditions, and for the fifth as long as
\* the entry found has a label (the case `not old_kernel` of line 325)
C3_ExceptUnlabelledEntry ==
    C3_Ends(\/ C3_NoSelection
            \/ C3_TooManyBrief
            \/ C3_NoCandidate
            \/ C3_ConfigError
            \/ C3_SecondListingRead /\ NotOldKernel(C3_OldEntry))

(***************************************************************************)
(* C4: when the index the scan extracts is not 1 or 2 (as for the lines    *)
(* '[1] *' and '[4]'), nothing is selected and nothing rebuilt, and with   *)
(* fatal the command ends with a non-zero exit.                            *)
(***************************************************************************)
C4_IndexExtracted ==
    /\ Briefed
    /\ Len(brief_lines) <= 2
    /\ unselected # NoIndex
    /\ unselected \notin {1, 2}

C4_OtherIndexSelectsNothing ==
    C4_IndexExtracted =>
        /\ pc = "done"
        /\ ~SetIssued
        /\ ~rebuild_called
        /\ fatal => (outcome = "raised" /\ err = Abort /\ CliExit = "nonzero")

C4_Witness ==
    /\ pc = "done"
    /\ fatal
    /\ kernel_list = <<LineSel1, LineUnsel4>>
    /\ unselected = 4
    /\ Len(brief_lines) = 2

(***************************************************************************)
(* C5: when .config is absent, also after the optional decompression of    *)
(* /proc/config.gz, rebuild_kernel raises the missing-configuration error  *)
(* and no build or install command has run.                                *)
(***************************************************************************)
C5_NoConfigNoBuild ==
    (rebuild_called /\ ~dot_config) =>
        /\ pc = "done"
        /\ rebuild_err = KernelConfigError("no .config")
        /\ NoneOf(BuildOps)

C5_Witness ==
    /\ rebuild_called
    /\ ~dot_config
    /\ InHist("eselect set 2")
    /\ rebuild_err = KernelConfigError("no .config")
    /\ outcome = "returned"

(***************************************************************************)
(* C6: without GRUB and with an empty `bootctl -p` answer the systemd-boot *)
(* installer raises KernelConfigError before bootctl update/install,       *)
(* kernel-install add, signing or any deletion; with fatal upgrade_kernel  *)
(* ends in Abort.                                                          *)
(***************************************************************************)
C6_EmptyEspStopsInstaller ==
    (cache["has_grub"] = No /\ cache["esp_path"] = "") =>
        /\ pc = "done"
        /\ rebuild_err = KernelConfigError("bootctl -p returned empty string")
        /\ NoneOf(InstallerOps \cup RemovalOps)
        /\ fatal => (outcome = "raised" /\ err = Abort)

C6_Witness ==
    /\ cache["has_grub"] = No
    /\ cache["uefi_unified"] = No
    /\ cache["esp_path"] = ""
    /\ fatal
    /\ err = Abort

(***************************************************************************)
(* C7: when dracut exits non-zero, rebuild_kernel raises that              *)
(* CalledProcessError with dracut's exit code, and neither grub*-mkconfig  *)
(* nor the systemd-boot installer runs afterwards.                         *)
(***************************************************************************)
C7_DracutFailureStops ==
    ("dracut" \in failed) =>
        /\ pc = "done"
        /\ Last = "dracut"
        /\ last_rc \in RCs
        /\ rebuild_err = CalledProcessError("dracut", last_rc)
        /\ NoneOf({"grub2-mkconfig", "grub-mkconfig", "bootctl -p"} \cup InstallerOps)

C7_Witness ==
    /\ "dracut" \in failed
    /\ cache["has_grub"] = Yes
    /\ rebuild_err = CalledProcessError("dracut", 2)

(***************************************************************************)
(* C8: when `make install` exits non-zero, rebuild_kernel issues           *)
(* `eselect kernel set 1` and then fails with the install error; no later  *)
(* step runs.                                                              *)
(***************************************************************************)
C8_InstallFailurePropagates ==
    ("make install" \in failed) =>
        \/ pc = "rollback_install" /\ Last = "make install"
        \/ /\ pc = "done"
           /\ rebuild_err.type = "CalledProcessError"
           /\ rebuild_err.cmd = "make install"
           /\ NoneOf({"eix grub", "grep uefi", "dracut", "grub2-mkconfig",
                      "grub-mkconfig", "bootctl -p"} \cup InstallerOps \cup RemovalOps)

Entries2 == StrippedLines(kernel_list2)
LinuxPrefix == <<"l", "i", "n", "u", "x", "-">>
\* entry e reads "[n]", blanks, "linux-", version
NamesVersion(e, version) ==
    /\ HasBracketIndex(e)
    /\ \E k \in 1..Len(e) :
         /\ e[k] = "]"
         /\ \E b \in 1..Len(e) :
              /\ \A j \in (k + 1)..(k + b) : j <= Len(e) /\ e[j] = " "
              /\ SubSeq(e, k + b + 1, Len(e)) = LinuxPrefix \o version
C11_Identified(version) ==
    /\ version # <<>>
    /\ \E i \in 1..Len(Entries2) :
         ~Selected(Entries2[i]) /\ NamesVersion(Entries2[i], version)
C11_Removed == ~NoneOf(RemovalOps)

C11_RemovesOnlyUnselectedEntry ==
    C11_Removed =>
        /\ Count("eselect list") = 2
        /\ old_kernel # NoText
        /\ C11_Identified(old_kernel)

C11_Witness ==
    /\ InHist("kernel-install remove")
    /\ kernel_list2 = <<LineNewB, LineOldA>>
    /\ old_kernel = <<"a">>
    /\ outcome = "returned"

(***************************************************************************)
(* C12: a subprocess started without the parameter env gets only variables *)
(* of SPECIAL_ENV, each with the value it has in os.environ; so two        *)
(* processes whose environments agree on SPECIAL_ENV hand identical        *)
(* environments to their subprocesses.                                     *)
(***************************************************************************)
C12_Default(i) == child_env[i].set /\ ~child_env[i].given
C12_Agree(e1, e2) == \A key \in SPECIAL_ENV \cap EnvNames : e1[key] = e2[key]

C12_OnlyAllowListed ==
    /\ \A i \in Procs :
         C12_Default(i) =>
            \A key \in DOMAIN child_env[i].env :
               key \in SPECIAL_ENV /\ child_env[i].env[key] = environ[i][key]
    /\ \A i, j \in Procs :
         (C12_Default(i) /\ C12_Default(j) /\ C12_Agree(environ[i], environ[j]))
            => child_env[i].env = child_env[j].env

C12_Witness ==
    /\ C12_Default(1)
    /\ C12_Default(2)
    /\ environ[1] = [key \in EnvNames |-> "a"]
    /\ environ[2] = [key \in EnvNames |-> IF key = "LD_PRELOAD" THEN "" ELSE "a"]
    /\ DOMAIN child_env[1].env = {"PATH", "USE"}
    /\ child_env[1].env = child_env[2].env

(***************************************************************************)
(* C13: with fatal = FALSE a run of upgrade_kernel never ends in a raised  *)
(* exception, whatever the external commands answer.                       *)
(***************************************************************************)
C13_NonFatalNeverRaises ==
    (~fatal /\ hist # <<>> /\ Head(hist) = "eselect list")
        => (outcome # "raised" /\ (pc = "done" => outcome = "returned"))

(***************************************************************************)
(* C14: the upgrade-kernel command built by kernel_command exits 0 when    *)
(* upgrade_kernel returns normally and non-zero when it raises             *)
(* KernelConfigError or click.Abort.                                       *)
(***************************************************************************)
UpgradeKernelRun == hist # <<>> /\ Head(hist) \in {"eselect list", "KeyboardInterrupt"}
C14_Ended == UpgradeKernelRun /\ fatal /\ pc = "done"

C14_ExitStatusOfKernelCommand ==
    C14_Ended =>
        /\ outcome = "returned" => upgrade_kernel_command.status = "zero"
        /\ (outcome = "raised" /\ err.type \in {"KernelConfigError", "Abort"})
              => upgrade_kernel_command.status = "nonzero"

C14_Witness ==
    /\ C14_Ended
    /\ err = KernelConfigError("Failed to determine old kernel version")
    /\ upgrade_kernel_command = [status |-> "nonzero", unhandled |-> FALSE]

(***************************************************************************)
(* C15: a user interrupt during a blocking command of the upgrade-kernel,  *)
(* emerges or esync command ends the run: no command (no rollback either)  *)
(* follows it, the exit status is non-zero and no exception is left        *)
(* unhandled.                                                              *)
(***************************************************************************)
C15_Interrupted == InHist("KeyboardInterrupt")

EmergeSteps ==
    {"emerge portage", "emerge @world", "emerge @live-rebuild",
     "emerge @preserved-rebuild"}
DaemonSteps == {"command -v systemctl", "systemctl daemon-reexec"}
\* a run of emerges, up to the call of upgrade_kernel
EmergesRun ==
    \/ pc \in EmergesPcs
    \/ hist # <<>> /\ Head(hist) = "emerge portage"
\* position of the first occurrence of op in hist, 0 when there is none
Pos(op) ==
    IF InHist(op) THEN CHOOSE i \in 1..Len(hist) :
                          hist[i] = op /\ \A j \in 1..(i - 1) : hist[j] # op
    ELSE 0
Opt(flagged, steps) == IF flagged THEN <<>> ELSE steps

(***************************************************************************)
(* C16: once a function decorated with umask has finished, by a normal     *)
(* return or by raising, the process umask is the one it was before the    *)
(* call.                                                                   *)
(***************************************************************************)
UmaskRun == old_umask # NoUmask

C16_Finished == UmaskRun /\ pc = "done"

C16_UmaskRestoredOnEveryExit ==
    C16_Finished => process_umask = old_umask

\* what holds of the decorator: the mask is the old one after a normal
\* return with restore set, and new_umask on every other exit
C16_RestoredOnlyOnReturnWithRestore ==
    C16_Finished =>
        process_umask = IF restore /\ outcome = "returned" THEN old_umask
                        ELSE new_umask

C16_Witness ==
    /\ C16_Finished
    /\ restore
    /\ outcome = "raised"
    /\ old_umask = "0o077"
    /\ process_umask = "0o022"

(***************************************************************************)
(* C17: when one of the emerge steps of emerges (portage, @world,          *)
(* @live-rebuild, @preserved-rebuild) exits non-zero, emerges ends in      *)
(* click.Abort with a non-zero exit, the failed step is the last command   *)
(* of the run, and neither the systemctl steps nor upgrade_kernel start.   *)
(***************************************************************************)
C17_EmergeFailed == failed \cap EmergeSteps # {}

C17_EmergeFailureAborts ==
    C17_EmergeFailed =>
        /\ pc = "done"
        /\ err = Abort
        /\ emerges_command = [status |-> "nonzero", unhandled |-> FALSE]
        /\ Last \in failed \cap EmergeSteps
        /\ Cardinality(failed) = 1
        /\ NoneOf(DaemonSteps)
        /\ Head(hist) = "emerge portage"

C17_Witness ==
    /\ "emerge @live-rebuild" \in failed
    /\ opts = {}
    /\ hist = <<"emerge portage", "emerge @world", "emerge @live-rebuild">>
    /\ outcome = "raised"

(***************************************************************************)
(* C18: a skip flag of emerges keeps its own step from running and no      *)
(* other: -L the @live-rebuild emerge, -P the @preserved-rebuild emerge,   *)
(* -D the systemctl steps, -U the call of upgrade_kernel; when no command  *)
(* fails, the steps without flag run in the order portage, @world,         *)
(* @live-rebuild, @preserved-rebuild, daemon-reexec, upgrade_kernel.       *)
(***************************************************************************)
C18_Expected ==
    <<"emerge portage", "emerge @world">>
        \o Opt("-L" \in opts, <<"emerge @live-rebuild">>)
        \o Opt("-P" \in opts, <<"emerge @preserved-rebuild">>)
        \o Opt("-D" \in opts, <<"command -v systemctl", "systemctl daemon-reexec">>)
C18_StepsOver == pc = "em_upgrade" \/ (pc = "done" /\ outcome = "returned")

C18_FlagsSkipOwnStep ==
    EmergesRun =>
        /\ "-L" \in opts => ~InHist("emerge @live-rebuild") /\ pc # "em_live"
        /\ "-P" \in opts => ~InHist("emerge @preserved-rebuild") /\ pc # "em_preserved"
        /\ "-D" \in opts => NoneOf(DaemonSteps) /\ pc \notin {"em_probe", "em_reexec"}
        /\ "-U" \in opts => pc # "em_upgrade"
        /\ (C18_StepsOver /\ failed = {}) =>
              /\ hist = C18_Expected
              /\ "-U" \notin opts <=> pc = "em_upgrade"

C18_Witness ==
    /\ pc = "em_upgrade"
    /\ opts = {"-L"}
    /\ failed = {}
    /\ hist = <<"emerge portage", "emerge @world", "emerge @preserved-rebuild",
                "command -v systemctl", "systemctl daemon-reexec">>

(***************************************************************************)
(* C19: in emerges `systemctl daemon-reexec` runs only right after a       *)
(* successful probe for systemctl; when the probe or daemon-reexec fails,  *)
(* emerges does not raise: it goes on to the call of upgrade_kernel, or    *)
(* returns with exit status 0 when -U is given.                            *)
(***************************************************************************)
C19_DaemonFailed == failed \cap DaemonSteps # {}

C19_DaemonReexecFailureSwallowed ==
    EmergesRun =>
        /\ InHist("systemctl daemon-reexec") =>
              /\ "command -v systemctl" \notin failed
              /\ Pos("systemctl daemon-reexec") = Pos("command -v systemctl") + 1
        /\ pc = "em_reexec" =>
              /\ Last = "command -v systemctl"
              /\ "command -v systemctl" \notin failed
        /\ C19_DaemonFailed =>
              /\ Last \in failed \cap DaemonSteps
              /\ IF up_kernel
                 THEN pc = "em_upgrade" /\ outcome = "running"
                 ELSE /\ pc = "done"
                      /\ emerges_command = [status |-> "zero", unhandled |-> FALSE]

C19_Witness ==
    /\ "systemctl daemon-reexec" \in failed
    /\ pc = "em_upgrade"
    /\ Len(hist) = 6

(***************************************************************************)
(* C20: in esync eix-sync runs only after the check for eix-sync, and with *)
(* -l after the check for layman and `layman -S`, have all succeeded; the  *)
(* first failing command is the last command of the run, which ends in     *)
(* click.Abort with a non-zero exit.                                       *)
(***************************************************************************)
EixSyncOps == {"eix-sync -a", "eix-sync -a -q -H"}
LaymanOps == {"command -v layman", "layman -S"}
EsyncRun ==
    \/ pc \in EsyncPcs
    \/ hist # <<>> /\ Head(hist) \in {"command -v layman", "command -v eix-sync"}
C20_EixSyncStarted == \E op \in EixSyncOps : InHist(op)

C20_EsyncStopsAtFirstFailure ==
    EsyncRun =>
        /\ C20_EixSyncStarted =>
              /\ Ran("command -v eix-sync")
              /\ run_layman => Ran("command -v layman") /\ Ran("layman -S")
              /\ failed \subseteq EixSyncOps
        /\ ~run_layman => NoneOf(LaymanOps)
        /\ failed # {} =>
              /\ pc = "done"
              /\ err = Abort
              /\ esync_command = [status |-> "nonzero", unhandled |-> FALSE]
              /\ Last \in failed
              /\ Cardinality(failed) = 1

C20_Witness ==
    /\ EsyncRun
    /\ "layman -S" \in failed
    /\ hist = <<"command -v layman", "layman -S">>
    /\ err = Abort

(***************************************************************************)
(* C21: ecleans runs its commands in the fixed order, stops at the first   *)
(* one that exits non-zero and exits with that command's code, running     *)
(* nothing after it; it exits 0 only when every command succeeded.         *)
(***************************************************************************)
\* h is the first commands of cmds, in order
EcleansPrefix(h, cmds) ==
    /\ Len(h) <= Len(cmds)
    /\ h = SubSeq(cmds, 1, Len(h))

\* a run of ecleans of src/upkeep.py that the user did not interrupt
UpkeepPyEcleansRun ==
    /\ ~InHist("KeyboardInterrupt")
    /\ \/ pc \in EcleansPcs
       \/ pc = "done" /\ hist # <<>> /\ Head(hist) = "emerge --depclean"

\* a run of the ecleans command of the package that has ended
PackageEcleansEnded == pc = "done" /\ err = TypeError

\* the claim on a finished run with exit code code
C21_Claim(cmds, code) ==
    /\ EcleansPrefix(hist, cmds)
    /\ failed # {} =>
         /\ failed = {Last}
         /\ code = last_rc
         /\ code # 0
    /\ failed = {} => hist = cmds /\ code = 0
    /\ code = 0 => failed = {} /\ hist = cmds

C21_EcleansStopsWithExitCode ==
    /\ (UpkeepPyEcleansRun /\ pc = "done") =>
           C21_Claim(UpkeepPyEcleansCommands, ecleans)
    /\ PackageEcleansEnded => C21_Claim(ECLEANS_COMMANDS, ecleans_command)

\* what holds: ecleans of src/upkeep.py does as claimed, also while it runs
C21_UpkeepPyEcleans ==
    UpkeepPyEcleansRun =>
        /\ EcleansPrefix(hist, UpkeepPyEcleansCommands)
        /\ pc # "done" => failed = {}
        /\ pc = "done" => C21_Claim(UpkeepPyEcleansCommands, ecleans)

\* the ecleans command of the package ends without having run a command
C21_PackageRunsNothing ==
    PackageEcleansEnded => hist = <<>> /\ ecleans_command = 1

C21_Witness ==
    /\ UpkeepPyEcleansRun
    /\ pc = "done"
    /\ failed = {"revdep-rebuild"}
    /\ ecleans = 2

(***************************************************************************)
(* C22: the local-version suffix probe gives the empty string, not None,   *)
(* for a .config whose line is CONFIG_LOCALVERSION="" or that has no such  *)
(* line, and the unquoted value -custom for CONFIG_LOCALVERSION="-custom". *)
(***************************************************************************)
\* the lines of .config that start with CONFIG_LOCALVERSION=
KeyLines == SelectSeq(config_text, StartsWithKey)
C22_Read == pc = "done" /\ probe_ret # NoCall
C22_EmptyOrMissing == KeyLines = <<>> \/ Head(KeyLines) = CfgEmpty
C22_Custom == KeyLines # <<>> /\ Head(KeyLines) = CfgCustom
CustomSuffix == <<"-", "c", "u", "s", "t", "o", "m">>

ProbeOp(p) ==
    CASE p = "has_grub" -> "eix grub"
      [] p = "uefi_unified" -> "grep uefi"
      [] p = "esp_path" -> "bootctl -p"
      [] p = "kernel_version" -> "read autoconf.h"
      [] p = "kernel_version_suffix" -> "read .config"

C23_AtMostOnce ==
    \A p \in Probes :
        /\ Count(ProbeOp(p)) <= 1
        /\ cache[p] # Unset => InHist(ProbeOp(p))

\* the later calls answer from the cache, whose entry does not change
C23_SameValue ==
    \A p \in Probes : cache[p] # Unset => cache'[p] = cache[p]

C23_ProbesMemoized == [](C23_AtMostOnce) /\ [][C23_SameValue]_vars

\* _uefi_unified() has been called at lines 236, 144 and 330, _esp_path()
\* at lines 138 and 152, _has_grub() at lines 236 and 241
C23_Witness ==
    /\ pc = "done"
    /\ Ran("kernel-install remove")
    /\ cache["has_grub"] = No
    /\ cache["uefi_unified"] = No
    /\ cache["esp_path"] = "/efi"
    /\ Count("grep uefi") = 1
    /\ Count("bootctl -p") = 1

(***************************************************************************)
(* C24: a failing rebuild of the out-of-tree modules (emerge               *)
(* @module-rebuild @x11-module-rebuild exiting non-zero) does not stop the *)
(* rebuild, which goes on to archive the old boot files and to install.    *)
(***************************************************************************)
C24_ModuleRebuildFailed == "emerge @module-rebuild" \in failed

C24_ModuleRebuildFailureNonFatal ==
    C24_ModuleRebuildFailed =>
        /\ rebuild_err.type # "CalledProcessError"
        /\ \/ pc = "archive"
           \/ InHist("find mv")
           \/ InHist("KeyboardInterrupt")

\* what the code does: the failure leaves rebuild_kernel and
\* upgrade_kernel, and nothing is run after it
C24_ModuleRebuildFailureFatal ==
    C24_ModuleRebuildFailed =>
        /\ pc = "done"
        /\ outcome = "raised"
        /\ err.type = "CalledProcessError"
        /\ err.cmd = "emerge @module-rebuild"
        /\ Last = "emerge @module-rebuild"

(***************************************************************************)
(* C25: when make oldconfig, make -jN or make modules_install exits        *)
(* non-zero, rebuild_kernel ends with that CalledProcessError: no later    *)
(* step runs, and upgrade_kernel passes the error on without removing a    *)
(* kernel entry.                                                           *)
(***************************************************************************)
MakeSteps == {"make oldconfig", "make -j", "make modules_install"}

BootloaderOps ==
    {"grub2-mkconfig", "grub-mkconfig", "bootctl -p", "bootctl update",
     "bootctl install", "kernel-install add", "bootctl status", "sbsign",
     "sbverify"}
RebuildOrder ==
    <<"make oldconfig", "make -j", "make modules_install",
      "emerge @module-rebuild", "find mv", "make install">>

\* a comes before b whenever b is in the history
Before(a, b) == InHist(b) => InHist(a) /\ Pos(a) < Pos(b)

\* the selection has been made before the first command of the rebuild,
\* and a selection that fails ends the run before the rebuild is called
C26_SelectionFirst ==
    /\ \A op \in BuildOps :
           InHist(op) =>
               /\ rebuild_called
               /\ \E set \in SetCmds : InHist(set) /\ Pos(set) < Pos(op)
    /\ (~rebuild_called /\ \E set \in SetCmds : set \in failed) =>
           pc = "done" /\ outcome = "raised" /\ NoneOf(BuildOps)

C26_RebuildOrder ==
    /\ \A i \in 1..(Len(RebuildOrder) - 1) :
           Before(RebuildOrder[i], RebuildOrder[i + 1])
    /\ Before("make install", "dracut")
    /\ \A op \in BootloaderOps :
           /\ Before("make install", op)
           /\ InHist("dracut") /\ InHist(op) => Pos("dracut") < Pos(op)

C26_ArchiveSucceededBeforeInstall ==
    InHist("make install") => Ran("find mv")

C26_LoadBearingOrder ==
    /\ C26_SelectionFirst
    /\ C26_RebuildOrder
    /\ C26_ArchiveSucceededBeforeInstall

\* what holds: the order of the steps, each after its predecessor was run
C26_OrderOfSteps == C26_SelectionFirst /\ C26_RebuildOrder

(***************************************************************************)
(* C27: when the rollback `eselect kernel set 1` that answers a failed     *)
(* `make install` fails itself, the error the caller gets is the one of    *)
(* `make install`, never the one of the rollback.                          *)
(***************************************************************************)
\* `make install` has failed and so has the rollback that answered it
C27_RollbackFailed ==
    /\ "make install" \in failed
    /\ "eselect set 1" \in failed
    /\ Last = "eselect set 1"

C27_OriginalErrorSurfaces ==
    C27_RollbackFailed =>
        /\ outcome = "raised"
        /\ err.type = "CalledProcessError"
        /\ err.cmd = "make install"

\* what the code does: the error of the rollback leaves rebuild_kernel
C27_RollbackErrorSurfaces ==
    C27_RollbackFailed =>
        /\ pc = "done"
        /\ outcome = "raised"
        /\ err = CalledProcessError("eselect set 1", last_rc)
        /\ rebuild_err = err

(***************************************************************************)
(* C28: the GRUB configuration is regenerated with grub2-mkconfig first;   *)
(* grub-mkconfig is run exactly when grub2-mkconfig could not be started   *)
(* or exited non-zero, and never after a successful first attempt.         *)
(***************************************************************************)
C28_FirstSuccessWins ==
    /\ Count("grub2-mkconfig") <= 1
    /\ Count("grub-mkconfig") <= 1
    /\ InHist("grub-mkconfig") =>
         /\ "grub2-mkconfig" \in failed
         /\ Pos("grub2-mkconfig") + 1 = Pos("grub-mkconfig")
    /\ Ran("grub2-mkconfig") =>
         /\ ~InHist("grub-mkconfig")
         /\ pc # "grub"
    /\ "grub2-mkconfig" \in failed =>
         \/ pc = "grub"
         \/ InHist("grub-mkconfig")
         \/ Last = "KeyboardInterrupt"

C28_Witness ==
    /\ "grub2-mkconfig" \in enoent
    /\ Ran("grub-mkconfig")
    /\ pc = "list2"

(***************************************************************************)
(* C29: with GRUB installed the rebuild regenerates the GRUB configuration *)
(* and issues no bootctl, kernel-install add, sbsign or sbverify command   *)
(* and cleans nothing in /boot; with GRUB absent no GRUB configuration     *)
(* command is issued.                                                      *)
(***************************************************************************)
GrubOps == {"grub2-mkconfig", "grub-mkconfig"}

\* rebuild_kernel has returned: upgrade_kernel is at or past line 316
RebuildReturned ==
    rebuild_called /\ (pc = "list2" \/ Count("eselect list") = 2)

\* op is in the history only after the second listing, which
\* upgrade_kernel makes when rebuild_kernel has returned
OnlyAfterRebuild(op) ==
    \A j \in 1..Len(hist) :
        hist[j] = op => \E i \in 2..(j - 1) : hist[i] = "eselect list"

C29_InstallerOnlyWithoutGrub ==
    /\ cache["has_grub"] = Yes =>
         /\ NoneOf(InstallerOps)
         /\ OnlyAfterRebuild("bootctl -p")
         /\ Ran("dracut") =>
              \/ pc = "grub2"
              \/ InHist("grub2-mkconfig")
              \/ Last = "KeyboardInterrupt"
         /\ RebuildReturned =>
              Ran("grub2-mkconfig") \/ Ran("grub-mkconfig")
    /\ cache["has_grub"] # Yes => NoneOf(GrubOps)
    /\ (\E op \in InstallerOps : InHist(op)) => cache["has_grub"] = No

C29_Witness ==
    /\ cache["has_grub"] = Yes
    /\ Ran("grub2-mkconfig")
    /\ outcome = "returned"
    /\ InHist("bootctl -p")

C29_WitnessNoGrub ==
    /\ cache["has_grub"] = No
    /\ Ran("kernel-install add")
    /\ outcome = "returned"

(***************************************************************************)
(* C30: dracut is run exactly when GRUB is installed or the unified UEFI   *)
(* image is configured, not at all when neither holds, and when it runs    *)
(* it runs after `make install` and before any bootloader update command.  *)
(***************************************************************************)
\* line 236: _has_grub() or _uefi_unified(), as far as it has been answered
C30_GrubOrUnified ==
    cache["has_grub"] = Yes \/ cache["uefi_unified"] = Yes
C30_Neither == cache["has_grub"] = No /\ cache["uefi_unified"] = No

C30_WitnessNeither ==
    /\ C30_Neither
    /\ Ran("kernel-install add")
    /\ outcome = "returned"

(***************************************************************************)
(* C31: once the previous kernel is identified after a successful rebuild, *)
(* exactly one removal method is used: with the unified UEFI image only    *)
(* the .efi files under <ESP>/EFI/Linux are deleted and kernel-install     *)
(* remove is not run; otherwise kernel-install remove is run once and no   *)
(* .efi file is deleted.                                                   *)
(***************************************************************************)
\* the second listing named a previous kernel (lines 319-329 passed)
C31_OldKernelIdentified ==
    /\ Count("eselect list") = 2
    /\ old_kernel # NoText
    /\ old_kernel # <<>>

\* before rebuild_kernel is called nothing of the removal has begun
C31_NothingRemovedYet ==
    /\ NoneOf(RemovalOps)
    /\ pc \notin {"uefi2", "remove_efi", "kremove"}
    /\ Count("eselect list") <= 1

C31_OneRemovalMethod ==
    IF ~rebuild_called THEN C31_NothingRemovedYet ELSE
    /\ Count("kernel-install remove") <= 1
    /\ Count("unlink old .efi") <= 1
    /\ ~(InHist("kernel-install remove") /\ InHist("unlink old .efi"))
    /\ cache["uefi_unified"] = Yes =>
         ~InHist("kernel-install remove") /\ pc # "kremove"
    /\ cache["uefi_unified"] # Yes =>
         ~InHist("unlink old .efi") /\ pc # "remove_efi"
    /\ InHist("kernel-install remove") => cache["uefi_unified"] = No
    /\ (C31_OldKernelIdentified /\ outcome = "returned") =>
         IF cache["uefi_unified"] = Yes
         THEN Last = "unlink old .efi"
         ELSE Last = "kernel-install remove" /\ Ran("kernel-install remove")
    /\ (pc \in {"uefi2", "remove_efi", "kremove"} \/ ~NoneOf(RemovalOps)) =>
         C31_OldKernelIdentified

C31_Witness ==
    /\ C31_OldKernelIdentified
    /\ outcome = "returned"
    /\ cache["uefi_unified"] = Yes
    /\ cache["has_grub"] = No
    /\ InHist("unlink old .efi")
    /\ Count("bootctl -p") = 1

(***************************************************************************)
(* C32: sbsign and sbverify are run if and only if `bootctl status`        *)
(* reports Secure Boot enabled and both sign-key and sign-cert are         *)
(* configured; with Secure Boot enabled and the key or the certificate     *)
(* missing, signing is skipped and the installer continues without error.  *)
(***************************************************************************)
SigningOps == {"sbsign", "sbverify"}

\* _maybe_sign_exes has decided: it signs or it has returned to its caller
C32_Decided == pc = "sbsign" \/ ~NoneOf(SigningOps) \/ InHist("unlink /boot files")

C32_SignsIffSecureBootAndKeys ==
    /\ (pc = "sbsign" \/ ~NoneOf(SigningOps)) =>
         sign.secure_boot = Yes /\ sign.db_key /\ sign.db_crt
    /\ (C32_Decided /\ sign.secure_boot = Yes /\ sign.db_key /\ sign.db_crt) =>
         (pc = "sbsign" \/ InHist("sbsign"))
    /\ (sign.secure_boot = Yes /\ ~(sign.db_key /\ sign.db_crt)) =>
         NoneOf(SigningOps) /\ rebuild_err = NoErr

\* what line 63 does: signing is decided by the configuration first, and
\* the status is asked only with a key and without a certificate
C32_SignsAsCoded ==
    /\ (pc = "sbsign" \/ ~NoneOf(SigningOps)) =>
         /\ sign.db_key
         /\ sign.db_crt => sign.secure_boot = Unset /\ ~InHist("bootctl status")
         /\ ~sign.db_crt => sign.secure_boot = No
    /\ InHist("bootctl status") => sign.db_key /\ ~sign.db_crt
    /\ sign.secure_boot = Yes => NoneOf(SigningOps)

(***************************************************************************)
(* C33: `bootctl install --graceful` is run if and only if `bootctl        *)
(* update` failed for a reason other than the known benign warnings: never *)
(* when the update succeeds or fails with benign stderr lines only, and    *)
(* always when the update fails and no benign line explains the failure.   *)
(***************************************************************************)
\* _bootctl_update_or_install has just run `bootctl update`
C33_JustUpdated == Last = "bootctl update"

C33_UpdateFailed == "bootctl update" \in failed

\* a benign line was printed and no other line
C33_ExplainedByBenignLine == update_stderr # <<>> /\ UpdateOk(update_stderr)

C33_InstallIffUnexplainedFailure ==
    /\ Count("bootctl install") <= 1
    /\ (pc = "bootctl_install" \/ InHist("bootctl install")) => C33_UpdateFailed
    /\ C33_JustUpdated =>
         (pc = "bootctl_install" <=>
            C33_UpdateFailed /\ ~C33_ExplainedByBenignLine)

\* what lines 40-47 do: the install is run when some stderr line is not
\* benign, so a failure that printed nothing is taken as no failure
C33_InstallIffSomeOtherLine ==
    /\ Count("bootctl install") <= 1
    /\ (pc = "bootctl_install" \/ InHist("bootctl install")) => C33_UpdateFailed
    /\ C33_JustUpdated =>
         (pc = "bootctl_install" <=>
            C33_UpdateFailed /\ \E i \in 1..Len(update_stderr) :
                                    ~Benign(update_stderr[i]))
    /\ (C33_JustUpdated /\ C33_UpdateFailed /\ update_stderr = <<>>) => pc = "kver"

(***************************************************************************)
(* C34: the capability probes never surface an error: for _has_grub and    *)
(* _uefi_unified any failure of the probe command, a non-zero exit of any  *)
(* value or the command failing to start, yields False and does not leave  *)
(* the probe.                                                              *)
(***************************************************************************)
CapabilityProbes == {"has_grub", "uefi_unified"}

C34_ProbeFailed(p) == ProbeOp(p) \in failed

\* the exception that ended the run came out of the probe p
C34_Surfaced(p) == outcome = "raised" /\ err.cmd = ProbeOp(p)

C34_ProbesNeverSurfaceError ==
    \A p \in CapabilityProbes :
        /\ ~C34_Surfaced(p)
        /\ C34_ProbeFailed(p) => cache[p] = No

\* what lines 112-128 do: a non-zero exit gives False, whatever its value;
\* only a command that could not be started leaves the probe
C34_NonZeroExitIsFalse ==
    \A p \in CapabilityProbes :
        /\ (C34_ProbeFailed(p) /\ ProbeOp(p) \notin enoent) =>
              cache[p] = No /\ ~C34_Surfaced(p)
        /\ C34_Surfaced(p) =>
              /\ err = FileNotFoundError(ProbeOp(p))
              /\ ProbeOp(p) \in enoent
              /\ cache[p] = Unset

(***************************************************************************)
(* C35: the kernel whose boot entry is removed in the final step is never  *)
(* the candidate this run selected with `eselect kernel set`, whatever the *)
(* intermediate steps did, runs with a failed archive or install step and  *)
(* a rollback to index 1 included.                                         *)
(***************************************************************************)
\* the index of the entry whose label became old_kernel (lines 319-324)
C35_RemovedIndex == FirstUnselected(Entries2)

\* the index upgrade_kernel selected at line 308
C35_Candidate == unselected

C35_NeverRemovesCandidate ==
    C11_Removed => C35_RemovedIndex # C35_Candidate

\* without the rollback of lines 234-235 the candidate is still selected
\* when the second listing is read, and the entry removed is another one
C35_CandidateKeptWithoutRollback ==
    (C11_Removed /\ ~RolledBack) => C35_RemovedIndex # C35_Candidate

\* after the rollback the candidate is removed exactly when it is not 1
C35_RollbackRemovesCandidate ==
    (C11_Removed /\ RolledBack) =>
        (C35_RemovedIndex = C35_Candidate <=> C35_Candidate = 2)

(***************************************************************************)
(* C36: the rollback `eselect kernel set 1` is issued only in response to  *)
(* a failure of the archive step or of `make install`: never in a run      *)
(* where both succeed, nor after a failure of the config check, oldconfig, *)
(* the compile, modules_install, the module rebuild, dracut or the         *)
(* bootloader update, where the selection stays at the candidate.          *)
(***************************************************************************)
GuardedOps == {"find mv", "make install"}

\* position i of the history holds a selection command that is not the
\* first one, which is upgrade_kernel's own (line 308)
C36_IsRollback(i) ==
    /\ hist[i] \in SetCmds
    /\ \E j \in 1..(i - 1) : hist[j] \in SetCmds

C36_Rollbacks == Cardinality({i \in 1..Len(hist) : C36_IsRollback(i)})

C36_GuardedFailures == Cardinality(GuardedOps \cap failed)

\* before the selection there is nothing to roll back
C36_NothingSelectedYet ==
    /\ pc \notin {"rollback_archive", "rollback_install", "list2"}
    /\ GuardedOps \cap failed = {}

C36_RollbackOnlyAfterArchiveOrInstall ==
    IF ~SetIssued THEN C36_NothingSelectedYet ELSE
    /\ \A i \in 1..Len(hist) :
          C36_IsRollback(i) =>
              /\ hist[i] = "eselect set 1"
              /\ hist[i - 1] \in GuardedOps \cap failed
    /\ \A i \in 1..Len(hist) :
          (hist[i] \in SetCmds /\ ~C36_IsRollback(i)) =>
              i > 1 /\ hist[i - 1] = "eselect brief list"
    /\ pc \in {"rollback_archive", "rollback_install"} =>
          Last \in GuardedOps \cap failed
    /\ C36_Rollbacks <= C36_GuardedFailures
    /\ (GuardedOps \cap failed = {}) =>
          /\ C36_Rollbacks = 0
          /\ ~RolledBack
          /\ Count("eselect set 1") + Count("eselect set 2") <= 1
          /\ (rebuild_called /\ pc = "list2") => CurrentSelection = unselected

\* the install fails, the selection is rolled back and nothing else is
C36_Witness ==
    /\ "make install" \in failed
    /\ Ran("find mv")
    /\ C36_Rollbacks = 1
    /\ unselected = 2
    /\ outcome = "returned"

\* dracut fails after a good archive and install: no rollback
C36_WitnessNoRollback ==
    /\ "dracut" \in failed
    /\ Ran("find mv")
    /\ Ran("make install")
    /\ C36_Rollbacks = 0
    /\ outcome = "raised"

(***************************************************************************)
(* C37: sbsign is never invoked with an empty signing key or an empty      *)
(* certificate: whenever sign-key or sign-cert is missing or empty, no     *)
(* signing or verification command is run, whatever `bootctl status` says  *)
(* about Secure Boot.                                                      *)
(***************************************************************************)
C37_KeyAndCertConfigured == sign.db_key /\ sign.db_crt

C37_NeverSignsWithEmptyKeyOrCert ==
    ~C37_KeyAndCertConfigured => pc # "sbsign" /\ NoneOf(SigningOps)

\* the half that holds: without a key nothing is signed and `bootctl
\* status` is not even asked
C37_NeverSignsWithoutKey ==
    ~sign.db_key => /\ pc \notin {"sbsign", "sbverify", "bootctl_status"}
                    /\ NoneOf(SigningOps \cup {"bootctl status"})

\* the case that fails: a key, no certificate, Secure Boot not enabled
C37_SignsWithEmptyCert ==
    (sign.db_key /\ ~sign.db_crt /\ sign.secure_boot = No) =>
        (pc = "sbsign" \/ InHist("sbsign") \/ Last = "KeyboardInterrupt")

(***************************************************************************)
(* C38: the systemd-boot installer deletes the new kernel's files from     *)
(* /boot only as its last action, after every earlier installer step       *)
(* succeeded: when the ESP lookup, the bootctl install fallback, the       *)
(* version detection, kernel-install add, signing or verification fails,   *)
(* no /boot file has been deleted.                                         *)
(***************************************************************************)
C38_Cleaned == InHist("unlink /boot files")

\* the commands of _update_systemd_boot whose failure leaves it
C38_FatalSteps ==
    {"bootctl -p", "bootctl install", "kernel-install add", "bootctl status",
     "sbsign", "sbverify"}

\* everything _update_systemd_boot and _maybe_sign_exes do
C38_InstallerSteps ==
    InstallerOps \cup {"bootctl -p", "read autoconf.h", "read upkeeprc"}

C38_InstallerPcs ==
    {"esp", "bootctl_update", "bootctl_install", "kver", "kinstall", "sign",
     "bootctl_status", "sbsign", "sbverify"}

C38_CleanupIsLastAction ==
    IF ~rebuild_called THEN ~C38_Cleaned /\ pc \notin C38_InstallerPcs ELSE
    /\ Count("unlink /boot files") <= 1
    /\ rebuild_err # NoErr => ~C38_Cleaned
    /\ pc \in C38_InstallerPcs => ~C38_Cleaned
    /\ C38_Cleaned =>
         /\ C38_FatalSteps \cap failed = {}
         /\ cache["esp_path"] \in EspPaths \ {""}
         /\ cache["kernel_version"] \in KernelVersions \ {None}
         /\ cache["uefi_unified"] = No => Ran("kernel-install add")
         /\ InHist("sbsign") => Count("sbsign") = FilesToSign
                                 /\ Count("sbverify") = FilesToSign
         /\ \E k \in 1..Len(hist) :
               /\ hist[k] = "unlink /boot files"
               /\ \A i \in (k + 1)..Len(hist) : hist[i] \notin C38_InstallerSteps

\* the files were signed and verified, then /boot was cleaned
C38_Witness ==
    /\ C38_Cleaned
    /\ Ran("sbverify")
    /\ Ran("kernel-install add")
    /\ "bootctl update" \in failed
    /\ Ran("bootctl install")
    /\ pc = "list2"

\* the verification of the second file fails: nothing is deleted
C38_WitnessFailure ==
    /\ "sbverify" \in failed
    /\ Count("sbverify") = FilesToSign
    /\ ~C38_Cleaned
    /\ outcome = "raised"

(***************************************************************************)
(* C39: with `.config` in the kernel source tree the config check never    *)
(* reads /proc/config.gz and never overwrites `.config`; config.gz is      *)
(* decompressed into `.config` only when `.config` is absent and config.gz *)
(* is present, and then exactly once.                                      *)
(***************************************************************************)
C39_Decompressions == Count("gunzip config.gz")

\* a step decompresses config.gz into .config
C39_Decompresses == hist' # hist /\ InHist("gunzip config.gz")' /\ ~InHist("gunzip config.gz")

\* the step of the config check: .config is there and is left alone, or
\* it is absent and is either written from config.gz or reported missing
C39_ConfigCheckStep ==
    /\ C39_Decompresses => pc = "config" /\ ~dot_config /\ dot_config'
    /\ (pc = "config" /\ pc' # "config" /\ dot_config) =>
          /\ ~C39_Decompresses
          /\ dot_config'
          /\ hist' = Append(hist, "read .config")
    /\ (pc = "config" /\ pc' # "config" /\ ~dot_config) =>
          \/ /\ dot_config'
             /\ hist' = hist \o <<"gunzip config.gz", "read .config">>
          \/ /\ ~dot_config'
             /\ hist' = hist
             /\ rebuild_err' = KernelConfigError("no .config")
    /\ pc # "config" => dot_config' = dot_config

C39_ConfigGzOnlyWithoutConfig ==
    /\ [](C39_Decompressions <= 1 /\ (C39_Decompressions = 1 => dot_config))
    /\ [][C39_ConfigCheckStep]_vars

\* .config was absent, config.gz was decompressed once and the build began
C39_Witness ==
    /\ C39_Decompressions = 1
    /\ dot_config
    /\ Ran("make oldconfig")

(***************************************************************************)
(* C40: if every external command terminates, every invocation of          *)
(* upgrade_kernel terminates in exactly one terminal outcome (no-op or     *)
(* abort before the selection, failure, or completion after the removal    *)
(* step); no step is retried: each external command is run at most once    *)
(* per invocation, apart from the fallbacks (legacy GRUB binary name,       *)
(* bootctl install, rollback of the selection) and the second full         *)
(* listing after the rebuild.                                              *)
(***************************************************************************)
\* the commands and file operations of upgrade_kernel and rebuild_kernel
C40_Steps ==
    BuildOps \cup InstallerOps \cup RemovalOps \cup SetCmds
        \cup {"eselect list", "eselect brief list", "eix grub", "grep uefi",
              "gunzip config.gz", "read .config", "read autoconf.h",
              "read upkeeprc", "KeyboardInterrupt"}

\* how often the code can issue a step: the full listing at lines 276 and
\* 316; `eselect kernel set 1` at line 308 and as the rollback of each of
\* the two guarded commands; sbsign and sbverify once for each file
C40_MaxRuns(op) ==
    CASE op = "eselect list" -> 2
      [] op = "eselect set 1" -> 3
      [] op \in SigningOps -> FilesToSign
      [] OTHER -> 1

C40_AtMostOnce ==
    /\ \A op \in C40_Steps : Count(op) <= C40_MaxRuns(op)
    /\ Count("eselect set 1") + Count("eselect set 2") + Count("eselect set other")
          <= 1 + C36_GuardedFailures
    /\ InHist("grub-mkconfig") => "grub2-mkconfig" \in failed
    /\ InHist("bootctl install") => "bootctl update" \in failed
    /\ Count("eselect list") = 2 => rebuild_called /\ rebuild_err = NoErr

C40_Ended == UpgradeKernelRun /\ pc = "done"

C40_NoOp == ~SetIssued /\ (outcome = "returned" \/ err = Abort)

C40_Completed == outcome = "returned" /\ Last \in RemovalOps

\* an exception left upgrade_kernel, or it returned early after the
\* selection: KernelConfigError logged with fatal false (lines 311-315), or
\* no previous kernel found with fatal false (lines 325-327)
C40_Failed ==
    \/ outcome = "raised" /\ ~(err = Abort /\ ~SetIssued)
    \/ /\ outcome = "returned"
       /\ SetIssued
       /\ NoneOf(RemovalOps)
       /\ ~fatal
       /\ \/ rebuild_err.type = "KernelConfigError"
          \/ Count("eselect list") = 2 /\ (old_kernel = NoText \/ old_kernel = <<>>)

C40_OneOutcome ==
    C40_Ended =>
        /\ outcome \in {"returned", "raised"}
        /\ C40_NoOp \/ C40_Failed \/ C40_Completed
        /\ ~(C40_NoOp /\ C40_Failed)
        /\ ~(C40_NoOp /\ C40_Completed)
        /\ ~(C40_Failed /\ C40_Completed)

\* upgrade_kernel has been entered
C40_Invoked == pc = "list"

C40_TerminatesWithoutRetry ==
    /\ [](C40_AtMostOnce /\ C40_OneOutcome)
    /\ [][pc # "done"]_vars
    /\ (C40_Invoked ~> pc = "done")

\* a run through both fallbacks of the installer that ends with the removal
C40_Witness ==
    /\ C40_Ended
    /\ C40_Completed
    /\ Count("eselect list") = 2
    /\ Ran("bootctl install")
    /\ C36_Rollbacks = 1
    /\ Count("sbsign") = FilesToSign

====
